---- MODULE Spec2Model ----
(***************************************************************************)
(* A model of the email retrieval and result-correlation pipeline of       *)
(* email_app: the IMAP search predicate built by /api/fetchEmails, the     *)
(* prompt variable substitution, the tag extraction of AI responses and    *)
(* the individual-mode dispatch of processEmails.                          *)
(*                                                                         *)
(* Strings are sequences of one-character strings, so that indexOf,        *)
(* substring, toLowerCase, trim and regular-expression replacement are     *)
(* computed character by character as the JavaScript runtime computes      *)
(* them.                                                                   *)
(***************************************************************************)
EXTENDS Integers, Sequences, FiniteSets, TLC

VARIABLES
    \* ---- /api/fetchEmails request body and the predicate built from it
    status, startDate, endDate, subjectSearchTerm, searchCriteria, critPc,
    \* ---- substitutePromptVariables
    promptText, variables, substitutedText, substPc,
    \* ---- tag extraction of one AI response
    individualResult, definedTags, cleanedContent, extractedTagNames,
    tagIndex, startIndex, faults, tagPc,
    \* ---- processEmails
    openaiApiKey, emails, promises, settleOrder, result, procPc,
    isProcessing, latestResults, queryHistory,
    \* ---- one request to /api/fetchEmails or /api/testConnection
    endpoint, detailsPresent, fetchAllFolders, folder, maxResults, boxes, mailbox,
    imapPc, readyFired, errorFired, connectionEnded, endCalls, res, responsesSent,
    folderNames, perFolderLimit, folderIndex, allFetchedEmails, queried,
    folderOutcome,
    \* ---- flattenFolders on the hierarchy that getBoxes returned
    flatPc,
    \* ---- the grouping step of handleProcess
    fetchResult, groupBySubject, emailsToProcess, emailCount, groupPc,
    \* ---- the IMAP session and the calls of fetchAndParseEmailsFromFolder
    selectedBox, folderCalls,
    \* ---- the source of historyId and timestamp of the history entries
    historyClock,
    \* ---- one run of handleProcess and the unified results of the Dashboard
    processIndividually, unifiedResults,
    \* ---- the tag list of the application context
    tagList, nextTagId, lastTagCall

critVars  == <<status, startDate, endDate, subjectSearchTerm, searchCriteria, critPc>>
substVars == <<promptText, variables, substitutedText, substPc>>
tagVars   == <<individualResult, definedTags, cleanedContent, extractedTagNames,
               tagIndex, startIndex, faults, tagPc>>
procVars  == <<openaiApiKey, emails, promises, settleOrder, result, procPc,
               isProcessing, latestResults, queryHistory>>
imapVars  == <<endpoint, detailsPresent, fetchAllFolders, folder, maxResults, boxes,
               mailbox, imapPc, readyFired, errorFired, connectionEnded, endCalls,
               res, responsesSent, folderNames, perFolderLimit, folderIndex, allFetchedEmails,
               queried, folderOutcome>>
flatVars  == <<flatPc>>
groupVars == <<fetchResult, groupBySubject, emailsToProcess, emailCount, groupPc>>
folderVars == <<selectedBox, folderCalls>>
histVars  == <<historyClock>>
queryVars == <<processIndividually, unifiedResults>>
crudVars  == <<tagList, nextTagId, lastTagCall>>
vars      == <<critVars, substVars, tagVars, procVars, imapVars, flatVars, groupVars,
               folderVars, histVars, queryVars, crudVars>>

-----------------------------------------------------------------------------
(* Strings *)

RECURSIVE Concat(_)
\* The concatenation of a sequence of strings.
Concat(ss) == IF ss = <<>> THEN <<>> ELSE Head(ss) \o Concat(Tail(ss))

\* All sequences over S of length at most n.
SeqsUpTo(S, n) == UNION { [1..k -> S] : k \in 0..n }

\* String.prototype.toLowerCase on one character of the modelled alphabet.
LowerChar(c) ==
    CASE c = "U" -> "u"
      [] c = "T" -> "t"
      [] c = "A" -> "a"
      [] c = "B" -> "b"
      [] OTHER   -> c

\* String.prototype.toLowerCase
ToLowerCase(s) == [i \in 1..Len(s) |-> LowerChar(s[i])]

\* s.substring(from, to) with 0-based indices, clamped as JavaScript clamps them.
Substring(s, from, to) ==
    LET f == IF from > Len(s) THEN Len(s) ELSE from
        t == IF to > Len(s) THEN Len(s) ELSE to
    IN  IF f >= t THEN <<>> ELSE SubSeq(s, f + 1, t)

\* s.substring(from)
SubstringFrom(s, from) == Substring(s, from, Len(s))

\* TRUE iff pat occurs in s at 0-based position i.
MatchesAt(s, pat, i) ==
    /\ i >= 0
    /\ i + Len(pat) <= Len(s)
    /\ \A k \in 1..Len(pat) : s[i + k] = pat[k]

\* s.indexOf(pat, from): the least 0-based position >= from where pat occurs, or -1.
IndexOfFrom(s, pat, from) ==
    LET f    == IF from > Len(s) THEN Len(s) ELSE from
        hits == { i \in f..Len(s) : MatchesAt(s, pat, i) }
    IN  IF hits = {} THEN -1 ELSE CHOOSE i \in hits : \A j \in hits : i <= j

\* s.indexOf(pat)
IndexOf(s, pat) == IndexOfFrom(s, pat, 0)

\* s.includes(pat)
Includes(s, pat) == IndexOf(s, pat) > -1

IsSpace(c) == c = " "

RECURSIVE TrimStart(_)
TrimStart(s) == IF s # <<>> /\ IsSpace(Head(s)) THEN TrimStart(Tail(s)) ELSE s

RECURSIVE TrimEnd(_)
TrimEnd(s) ==
    IF s # <<>> /\ IsSpace(s[Len(s)]) THEN TrimEnd(SubSeq(s, 1, Len(s) - 1)) ELSE s

\* String.prototype.trim
Trim(s) == TrimEnd(TrimStart(s))

\* a || b on strings: the empty string is falsy.
OrElse(a, b) == IF a = <<>> THEN b ELSE a

-----------------------------------------------------------------------------
(* Dates: new Date("YYYY-MM-DDT00:00:00.000Z"), getTime, toUTCString *)

\* 24 * 60 * 60 * 1000, the milliseconds added to the end date.
MsPerDay == 86400000

\* A date input "YYYY-MM-DD" is the record of its three fields; the empty
\* string (no date given) is NoDate.
NoDate == [y |-> 0, m |-> 0, d |-> 0]

\* A time value (milliseconds since the epoch) is kept as whole days and the
\* milliseconds within the day, since it does not fit a 32-bit integer.
\* new Date(`${date}T00:00:00.000Z`): the day number of a civil date.
DateFromISO(date) ==
    LET yy  == IF date.m <= 2 THEN date.y - 1 ELSE date.y
        era == yy \div 400
        yoe == yy - era * 400
        mp  == (date.m + 9) % 12
        doy == (153 * mp + 2) \div 5 + date.d - 1
        doe == yoe * 365 + yoe \div 4 - yoe \div 100 + doy
    IN  [day |-> era * 146097 + doe - 719468, ms |-> 0]

\* new Date(t.getTime() + n)
AddMs(t, n) ==
    LET s == t.ms + n
    IN  [day |-> t.day + s \div MsPerDay, ms |-> s % MsPerDay]

\* Date.prototype.toUTCString: weekday, day, month, year and time of day in GMT.
ToUTCString(t) ==
    LET z   == t.day + 719468
        era == z \div 146097
        doe == z - era * 146097
        yoe == (doe - doe \div 1460 + doe \div 36524 - doe \div 146096) \div 365
        doy == doe - (365 * yoe + yoe \div 4 - yoe \div 100)
        mp  == (5 * doy + 2) \div 153
        dd  == doy - (153 * mp + 2) \div 5 + 1
        mm  == IF mp < 10 THEN mp + 3 ELSE mp - 9
        yy  == yoe + era * 400 + (IF mm <= 2 THEN 1 ELSE 0)
    IN  [wd |-> (t.day + 4) % 7, d |-> dd, m |-> mm, y |-> yy,
         hh |-> t.ms \div 3600000, mi |-> (t.ms \div 60000) % 60,
         ss |-> (t.ms \div 1000) % 60, zone |-> "GMT"]

-----------------------------------------------------------------------------
(* The IMAP search predicate of /api/fetchEmails *)

\* A plausible slip: the end date's own midnight, the 24 hours not added.
beforeDate_NotShifted(end) == DateFromISO(end)

\* const beforeDate = new Date(endDateStartOfDayUTC.getTime() + 24 * 60 * 60 * 1000)
beforeDate(end) == AddMs(DateFromISO(end), 24 * 60 * 60 * 1000)

\* new Date(`${startDate}T00:00:00.000Z`)
sinceDate(start) == DateFromISO(start)

\* if (status === 'unread') push('UNSEEN'); else if (status === 'read') push('SEEN')
StatusTokens(st) ==
    IF st = "unread" THEN << [kind |-> "UNSEEN"] >>
    ELSE IF st = "read" THEN << [kind |-> "SEEN"] >>
    ELSE <<>>

\* if (startDate) push(['SINCE', ...toUTCString()])
SinceTokens(start) ==
    IF start # NoDate
    THEN << [kind |-> "SINCE", date |-> ToUTCString(sinceDate(start))] >>
    ELSE <<>>

\* if (endDate) push(['BEFORE', beforeDate.toUTCString()])
BeforeTokens(end) ==
    IF end # NoDate
    THEN << [kind |-> "BEFORE", date |-> ToUTCString(beforeDate(end))] >>
    ELSE <<>>

\* A plausible slip: the term is not tested for being blank.
SubjectTokens_BlankNotTested(term) ==
    IF term # <<>> THEN << [kind |-> "SUBJECT", term |-> Trim(term)] >> ELSE <<>>

\* if (subjectSearchTerm && subjectSearchTerm.trim() !== '') push(['SUBJECT', trimmed])
SubjectTokens(term) ==
    IF term # <<>> /\ Trim(term) # <<>>
    THEN << [kind |-> "SUBJECT", term |-> Trim(term)] >>
    ELSE <<>>

\* The searchCriteria array built in the ready handler: ['ALL'] when nothing
\* was pushed.
BuildSearchCriteria(st, start, end, term) ==
    LET pushed == StatusTokens(st) \o SinceTokens(start) \o BeforeTokens(end)
                  \o SubjectTokens(term)
    IN  IF Len(pushed) = 0 THEN << [kind |-> "ALL"] >> ELSE pushed

-----------------------------------------------------------------------------
(* substitutePromptVariables *)

\* The characters the key is escaped for: /[.*+?^${}()|[\]\\]/g
RegexSpecial == {".", "*", "+", "?", "^", "$", "{", "}", "(", ")", "|", "[", "]", "\\"}

Digits == {"0", "1", "2", "3", "4", "5", "6", "7", "8", "9"}

RECURSIVE EscapeKey(_)
\* variable.key.replace(/[.*+?^${}()|[\]\\]/g, '\\$&')
EscapeKey(key) ==
    IF key = <<>> THEN <<>>
    ELSE (IF Head(key) \in RegexSpecial THEN <<"\\", Head(key)>> ELSE <<Head(key)>>)
         \o EscapeKey(Tail(key))

RECURSIVE Unescape(_)
\* The literal characters a pattern of escaped and plain characters matches.
Unescape(src) ==
    IF src = <<>> THEN <<>>
    ELSE IF Head(src) = "\\" /\ Len(src) >= 2
         THEN <<src[2]>> \o Unescape(Tail(Tail(src)))
         ELSE <<Head(src)>> \o Unescape(Tail(src))

\* TRUE iff braces around body read as a quantifier {n}: the body is all digits.
\* (A key holds no comma, so the forms {n,} and {n,m} do not arise.)
IsBracedQuantifier(body) ==
    /\ body # <<>>
    /\ \A i \in 1..Len(body) : body[i] \in Digits

\* new RegExp(`\{${escapedKey}\}`, 'g'): in the template literal \{ and \} are
\* the plain braces, so the pattern source is {escapedKey}. Without the u flag
\* a brace that opens no quantifier is a literal character, and a quantifier
\* at the start of the pattern has nothing to repeat: a SyntaxError.
NewRegExp(escapedKey) ==
    IF IsBracedQuantifier(escapedKey)
    THEN [error |-> TRUE, literal |-> <<>>]
    ELSE [error |-> FALSE, literal |-> <<"{">> \o Unescape(escapedKey) \o <<"}">>]

RECURSIVE GetSubstitution(_, _, _, _)
\* The expansion of a replacement string for one match (no capture groups):
\* $$ is a dollar, $& the matched text, $` the text before the match, $' the
\* text after it; any other character stands for itself.
GetSubstitution(repl, str, pos, matched) ==
    IF repl = <<>> THEN <<>>
    ELSE IF Head(repl) = "$" /\ Len(repl) >= 2 /\ repl[2] \in {"$", "&", "`", "'"}
         THEN (CASE repl[2] = "$" -> <<"$">>
                 [] repl[2] = "&" -> matched
                 [] repl[2] = "`" -> Substring(str, 0, pos)
                 [] repl[2] = "'" -> SubstringFrom(str, pos + Len(matched)))
              \o GetSubstitution(Tail(Tail(repl)), str, pos, matched)
         ELSE <<Head(repl)>> \o GetSubstitution(Tail(repl), str, pos, matched)

RECURSIVE ReplaceFrom(_, _, _, _)
ReplaceFrom(str, literal, repl, pos) ==
    IF pos >= Len(str) THEN <<>>
    ELSE IF MatchesAt(str, literal, pos)
         THEN GetSubstitution(repl, str, pos, literal)
              \o ReplaceFrom(str, literal, repl, pos + Len(literal))
         ELSE <<str[pos + 1]>> \o ReplaceFrom(str, literal, repl, pos + 1)

\* str.replace(regex, repl) for a global regex matching a literal text.
StringReplace(str, literal, repl) == ReplaceFrom(str, literal, repl, 0)

RECURSIVE SubstituteEach(_, _)
\* variables.forEach(variable => ...): thrown is TRUE when new RegExp threw.
SubstituteEach(text, vs) ==
    IF vs = <<>> THEN [thrown |-> FALSE, text |-> text]
    ELSE LET regex == NewRegExp(EscapeKey(Head(vs).key))
         IN  IF regex.error
             THEN [thrown |-> TRUE, text |-> text]
             ELSE SubstituteEach(StringReplace(text, regex.literal, Head(vs).value),
                                 Tail(vs))

substitutePromptVariables(text, vs) == SubstituteEach(text, vs)

-----------------------------------------------------------------------------
(* Tag extraction: the tag parsing logic of processEmails *)

\* TagManager.handleSave derives the marker from the trimmed name: [[name]].
MakeTag(name) ==
    [name |-> Trim(name), marker |-> <<"[", "[">> \o Trim(name) \o <<"]", "]">>]

\* cleanedContent.substring(0, startIndex) + cleanedContent.substring(endIndex)
RemoveOccurrence(content, start, marker) ==
    LET endIndex == start + Len(marker)
    IN  Substring(content, 0, start) \o SubstringFrom(content, endIndex)

\* A plausible slip: the loop has no check for a removal without progress.
RemovalStalled_NotChecked(beforeRemoval, content) == FALSE

\* if (beforeRemoval === cleanedContent): the removal made no progress.
RemovalStalled(beforeRemoval, content) == beforeRemoval = content

\* contentLower.indexOf(markerLower, startIndex): the next search starts from
\* the index of the occurrence just removed.
NextStartIndex(content, marker, start) ==
    IndexOfFrom(ToLowerCase(content), ToLowerCase(marker), start)

\* let startIndex = contentLower.indexOf(markerLower)
FirstStartIndex(content, marker) ==
    IndexOf(ToLowerCase(content), ToLowerCase(marker))

\* if (contentLower.includes(markerLower))
MarkerFound(content, marker) == Includes(ToLowerCase(content), ToLowerCase(marker))

\* if (!extractedTagNames.includes(tag.name)) extractedTagNames.push(tag.name)
PushTagName(names, name) ==
    IF \E i \in 1..Len(names) : names[i] = name THEN names ELSE Append(names, name)

RECURSIVE RemovalLoop(_, _, _)
\* while (startIndex > -1) { ... }: the content after the loop.
RemovalLoop(content, marker, start) ==
    IF ~(start > -1) THEN content
    ELSE LET rebuilt == RemoveOccurrence(content, start, marker)
         IN  IF RemovalStalled(content, rebuilt)
             THEN rebuilt
             ELSE RemovalLoop(rebuilt, marker, NextStartIndex(rebuilt, marker, start))

RECURSIVE ParseEachTag(_, _, _)
\* definedTags.forEach(tag => ...)
ParseEachTag(content, names, tags) ==
    IF tags = <<>> THEN [content |-> content, tags |-> names]
    ELSE LET tag == Head(tags)
         IN  IF MarkerFound(content, tag.marker)
             THEN ParseEachTag(
                      RemovalLoop(content, tag.marker, FirstStartIndex(content, tag.marker)),
                      PushTagName(names, tag.name), Tail(tags))
             ELSE ParseEachTag(content, names, Tail(tags))

\* The tag parsing of one response: the cleaned content and the tag names.
ParseTags(response, tags) ==
    IF response # <<>> /\ Len(tags) > 0
    THEN ParseEachTag(response, <<>>, tags)
    ELSE [content |-> response, tags |-> <<>>]

-----------------------------------------------------------------------------
(* processEmails, individual mode *)

\* '(No Subject)'
NoSubjectText == <<"(", "N", "o", " ", "S", "u", "b", "j", "e", "c", "t", ")">>

\* 'N/A'
NoSenderText == <<"N", "/", "A">>

\* 'Error processing this email: '
ErrorContentPrefix ==
    <<"E", "r", "r", "o", "r", " ", "p", "r", "o", "c", "e", "s", "s", "i", "n", "g", " ",
      "t", "h", "i", "s", " ", "e", "m", "a", "i", "l", ":", " ">>

\* let processedData: ProcessedEmailResult | null = null
NullResult == [isNull |-> TRUE]

\* A plausible slip: results are matched to emails by the order of completion.
SourceEmail_ByCompletionOrder(list, index, settled) == list[Len(settled) + 1]

\* The email a callback of emails.map builds its result from: the email of
\* its own closure, whatever has completed before.
SourceEmail(list, index, settled) == list[index]

\* The processedData of the try block: the completion resolved with content.
SuccessResult(email, content, tags) ==
    LET individual == OrElse(content, <<>>)
        parsed     == ParseTags(individual, tags)
    IN  [isNull |-> FALSE,
         subject |-> OrElse(email.subject, NoSubjectText),
         sender |-> OrElse(email.sender, NoSenderText),
         date |-> email.date,
         originalUid |-> email.id,
         content |-> parsed.content,
         tags |-> parsed.tags,
         hasError |-> FALSE, error |-> <<>>]

\* A plausible slip: the catch block leaves processedData null, and the filter
\* after Promise.all drops the email.
CatchResult_LeftNull(email, message) == NullResult

\* A plausible slip: the catch block builds the result without the error field.
CatchResult_NoErrorField(email, message) ==
    [isNull |-> FALSE,
     subject |-> OrElse(email.subject, NoSubjectText),
     sender |-> OrElse(email.sender, NoSenderText),
     date |-> email.date,
     originalUid |-> email.id,
     content |-> ErrorContentPrefix \o message,
     tags |-> <<>>,
     hasError |-> FALSE, error |-> <<>>]

\* The processedData of the catch block: the completion failed with message.
CatchResult(email, message) ==
    [isNull |-> FALSE,
     subject |-> OrElse(email.subject, NoSubjectText),
     sender |-> OrElse(email.sender, NoSenderText),
     date |-> email.date,
     originalUid |-> email.id,
     content |-> ErrorContentPrefix \o message,
     tags |-> <<>>,
     hasError |-> TRUE, error |-> message]

\* (await Promise.all(promises)).filter(item => item !== null): the values of
\* the promises in the order of the emails, the null ones left out.
FilterNonNull(ps) ==
    LET NotNull(p) == ~p.data.isNull
        kept == SelectSeq(ps, NotNull)
    IN  [i \in 1..Len(kept) |-> kept[i].data]

\* .slice(0, 20): the query history keeps the 20 newest entries.
HistoryLimit == 20

\* A variant of saveQueryToHistory without the cut to HistoryLimit.
saveQueryToHistory_Uncut(history, now, prompt, results, individually, rawEmails) ==
    << [historyId |-> now, timestamp |-> now, prompt |-> prompt, results |-> results,
        processIndividually |-> individually, rawEmails |-> rawEmails] >> \o history

\* saveQueryToHistory: the new entry first, the list cut to HistoryLimit.
\* now stands for both uuidv4() and Date.now(): a value no earlier entry has,
\* greater than that of every earlier entry.  (queryData, promptType, promptId
\* and individualResults are left out.)
saveQueryToHistory(history, now, prompt, results, individually, rawEmails) ==
    LET entry   == [historyId |-> now, timestamp |-> now,
                    prompt |-> prompt, results |-> results,
                    processIndividually |-> individually, rawEmails |-> rawEmails]
        newList == <<entry>> \o history
    IN  SubSeq(newList, 1, IF Len(newList) < HistoryLimit THEN Len(newList)
                           ELSE HistoryLimit)

-----------------------------------------------------------------------------
(* Bounded inputs *)

FirstYear == 2023
LastYear == 2024
MaxPieces == 6
MaxLoopPieces == 4
MaxTemplatePieces == 2
MaxVariables == 2

IsLeapYear(y) == (y % 4 = 0 /\ y % 100 # 0) \/ y % 400 = 0

DaysInMonth(y, m) ==
    IF m = 2 THEN (IF IsLeapYear(y) THEN 29 ELSE 28)
    ELSE IF m \in {4, 6, 9, 11} THEN 30 ELSE 31

\* The date inputs: the first, the 28th and the last day of every month.
DateInputs ==
    { dt \in [y : FirstYear..LastYear, m : 1..12, d : 1..31] :
        dt.d \in {1, 28, DaysInMonth(dt.y, dt.m)} }

StatusInputs == {"all", "read", "unread"}

SubjectInputs == { <<>>, <<" ">>, <<"x">>, <<" ", "x", "y", " ">> }

\* Response texts: up to n pieces out of brackets and letters of both cases.
TextPieces == { <<"[", "[">>, <<"]", "]">>, <<"u">>, <<"T">> }

Texts(n) == { Concat(ps) : ps \in SeqsUpTo(TextPieces, n) }

TagU == MakeTag(<<"U">>)
TagT == MakeTag(<<"t">>)
\* A stored tag whose marker is empty (the tags are loaded from storage as stored).
TagE == [name |-> <<"e">>, marker |-> <<>>]

\* Lists of at most two tags, no tag twice.
TagListsOf(tags) ==
    { ts \in SeqsUpTo(tags, 2) : \A i, j \in 1..Len(ts) : i # j => ts[i] # ts[j] }

\* Templates: up to n pieces out of placeholders and plain text.
TemplatePieces ==
    { <<"{", "A", "}">>, <<"{", "A", "B", "}">>, <<"{", "B", "}">>, <<"{", "a", "}">>,
      <<"{", "1", "}">>, <<"x">>, <<"{">>, <<"}">> }

Templates == { Concat(ps) : ps \in SeqsUpTo(TemplatePieces, MaxTemplatePieces) }

\* Keys that pass the key validation /^[A-Z0-9_]+$/ of the variables manager.
KeyInputs == { <<"A">>, <<"A", "B">>, <<"1">> }

ValueInputs == { <<"v">>, <<"$", "$">>, <<"$", "&">>, <<"{", "A", "B", "}">> }

\* Lists of variables with keys unique, as addVariable and updateVariable keep them.
VariableLists ==
    { vs \in SeqsUpTo([key : KeyInputs, value : ValueInputs], MaxVariables) :
        \A i, j \in 1..Len(vs) : i # j => vs[i].key # vs[j].key }

-----------------------------------------------------------------------------
(* The parts of the state a specification leaves alone *)

CritIdle ==
    /\ status = "all" /\ startDate = NoDate /\ endDate = NoDate
    /\ subjectSearchTerm = <<>> /\ searchCriteria = <<>> /\ critPc = "idle"

SubstIdle ==
    /\ promptText = <<>> /\ variables = <<>> /\ substitutedText = <<>>
    /\ substPc = "idle"

TagIdle ==
    /\ individualResult = <<>> /\ definedTags = <<>> /\ cleanedContent = <<>>
    /\ extractedTagNames = <<>> /\ tagIndex = 0 /\ startIndex = -1
    /\ faults = <<>> /\ tagPc = "idle"

ProcIdle ==
    /\ openaiApiKey = <<>> /\ emails = <<>> /\ promises = <<>> /\ settleOrder = <<>>
    /\ result = [kind |-> "none"] /\ procPc = "idle"
    /\ isProcessing = FALSE /\ latestResults = [kind |-> "none"] /\ queryHistory = <<>>

ImapIdle ==
    /\ endpoint = "none" /\ detailsPresent = FALSE /\ fetchAllFolders = FALSE
    /\ folder = <<>> /\ maxResults = 0 /\ boxes = <<>> /\ mailbox = <<>>
    /\ imapPc = "idle" /\ readyFired = FALSE /\ errorFired = FALSE
    /\ connectionEnded = FALSE /\ endCalls = 0 /\ res = [kind |-> "none"]
    /\ responsesSent = 0
    /\ folderNames = <<>> /\ perFolderLimit = 0 /\ folderIndex = 0
    /\ allFetchedEmails = <<>> /\ queried = <<>> /\ folderOutcome = <<>>

FlatIdle == flatPc = "idle"

GroupIdle ==
    /\ fetchResult = <<>> /\ groupBySubject = FALSE /\ emailsToProcess = <<>>
    /\ emailCount = 0 /\ groupPc = "idle"

FolderIdle == selectedBox = <<>> /\ folderCalls = <<>>

HistIdle == historyClock = 0

QueryIdle == processIndividually = TRUE /\ unifiedResults = <<>>

CrudIdle == tagList = <<>> /\ nextTagId = 0 /\ lastTagCall = [op |-> "none"]

-----------------------------------------------------------------------------
(* SpecCriteria: the ready handler of /api/fetchEmails builds the predicate *)

InitCriteria ==
    /\ status \in StatusInputs
    /\ startDate \in DateInputs \cup {NoDate}
    /\ endDate \in DateInputs \cup {NoDate}
    /\ subjectSearchTerm \in SubjectInputs
    /\ searchCriteria = <<>>
    /\ critPc = "ready"
    /\ SubstIdle /\ TagIdle /\ ProcIdle /\ ImapIdle /\ FlatIdle /\ GroupIdle
    /\ FolderIdle /\ HistIdle /\ QueryIdle /\ CrudIdle

OnReadyBuildCriteria ==
    /\ critPc = "ready"
    /\ searchCriteria' = BuildSearchCriteria(status, startDate, endDate, subjectSearchTerm)
    /\ critPc' = "built"
    /\ UNCHANGED <<status, startDate, endDate, subjectSearchTerm>>
    /\ UNCHANGED <<substVars, tagVars, procVars, imapVars, flatVars, groupVars>>
    /\ UNCHANGED <<folderVars, histVars, queryVars, crudVars>>

NextCriteria == OnReadyBuildCriteria

SpecCriteria == InitCriteria /\ [][NextCriteria]_vars

-----------------------------------------------------------------------------
(* SpecSubst: one call of substitutePromptVariables *)

InitSubst ==
    /\ promptText \in Templates
    /\ variables \in VariableLists
    /\ substitutedText = <<>>
    /\ substPc = "call"
    /\ CritIdle /\ TagIdle /\ ProcIdle /\ ImapIdle /\ FlatIdle /\ GroupIdle
    /\ FolderIdle /\ HistIdle /\ QueryIdle /\ CrudIdle

Substitute ==
    /\ substPc = "call"
    /\ LET r == substitutePromptVariables(promptText, variables)
       IN  /\ substitutedText' = r.text
           /\ substPc' = IF r.thrown THEN "thrown" ELSE "returned"
    /\ UNCHANGED <<promptText, variables>>
    /\ UNCHANGED <<critVars, tagVars, procVars, imapVars, flatVars, groupVars>>
    /\ UNCHANGED <<folderVars, histVars, queryVars, crudVars>>

NextSubst == Substitute

SpecSubst == InitSubst /\ [][NextSubst]_vars

-----------------------------------------------------------------------------
(* SpecTags: the tag parsing of one response, as one step *)

InitTags ==
    /\ individualResult \in Texts(MaxPieces)
    /\ definedTags \in TagListsOf({TagU, TagT})
    /\ cleanedContent = individualResult
    /\ extractedTagNames = <<>>
    /\ tagIndex = 0 /\ startIndex = -1 /\ faults = <<>>
    /\ tagPc = "parse"
    /\ CritIdle /\ SubstIdle /\ ProcIdle /\ ImapIdle /\ FlatIdle /\ GroupIdle
    /\ FolderIdle /\ HistIdle /\ QueryIdle /\ CrudIdle

ParseResponse ==
    /\ tagPc = "parse"
    /\ LET r == ParseTags(individualResult, definedTags)
       IN  /\ cleanedContent' = r.content
           /\ extractedTagNames' = r.tags
    /\ tagPc' = "done"
    /\ UNCHANGED <<individualResult, definedTags, tagIndex, startIndex, faults>>
    /\ UNCHANGED <<critVars, substVars, procVars, imapVars, flatVars, groupVars>>
    /\ UNCHANGED <<folderVars, histVars, queryVars, crudVars>>

NextTags == ParseResponse

SpecTags == InitTags /\ [][NextTags]_vars

-----------------------------------------------------------------------------
(* SpecTagLoop: the tag parsing of one response, one loop iteration a step *)

InitTagLoop ==
    /\ individualResult \in Texts(MaxLoopPieces)
    /\ definedTags \in TagListsOf({TagU, TagT, TagE})
    /\ cleanedContent = individualResult
    /\ extractedTagNames = <<>>
    /\ tagIndex = 0 /\ startIndex = -1 /\ faults = <<>>
    /\ tagPc = "parse"
    /\ CritIdle /\ SubstIdle /\ ProcIdle /\ ImapIdle /\ FlatIdle /\ GroupIdle
    /\ FolderIdle /\ HistIdle /\ QueryIdle /\ CrudIdle

\* if (individualResult && definedTags.length > 0)
StartParse ==
    /\ tagPc = "parse"
    /\ IF individualResult # <<>> /\ Len(definedTags) > 0
       THEN tagPc' = "forEach" /\ tagIndex' = 1
       ELSE tagPc' = "done" /\ tagIndex' = tagIndex
    /\ UNCHANGED <<individualResult, definedTags, cleanedContent, extractedTagNames,
                   startIndex, faults>>
    /\ UNCHANGED <<critVars, substVars, procVars, imapVars, flatVars, groupVars>>
    /\ UNCHANGED <<folderVars, histVars, queryVars, crudVars>>

\* The body of the forEach callback up to the while loop.
ForEachTag ==
    /\ tagPc = "forEach"
    /\ tagIndex <= Len(definedTags)
    /\ LET tag == definedTags[tagIndex]
       IN  IF MarkerFound(cleanedContent, tag.marker)
           THEN /\ extractedTagNames' = PushTagName(extractedTagNames, tag.name)
                /\ startIndex' = FirstStartIndex(cleanedContent, tag.marker)
                /\ tagPc' = "while"
                /\ tagIndex' = tagIndex
           ELSE /\ tagIndex' = tagIndex + 1
                /\ UNCHANGED <<extractedTagNames, startIndex, tagPc>>
    /\ UNCHANGED <<individualResult, definedTags, cleanedContent, faults>>
    /\ UNCHANGED <<critVars, substVars, procVars, imapVars, flatVars, groupVars>>
    /\ UNCHANGED <<folderVars, histVars, queryVars, crudVars>>

\* One iteration of while (startIndex > -1): remove the occurrence; break and
\* log the fault when the content is unchanged, else search the next one.
WhileRemove ==
    /\ tagPc = "while"
    /\ startIndex > -1
    /\ LET marker  == definedTags[tagIndex].marker
           rebuilt == RemoveOccurrence(cleanedContent, startIndex, marker)
       IN  /\ cleanedContent' = rebuilt
           /\ IF RemovalStalled(cleanedContent, rebuilt)
              THEN /\ faults' = Append(faults, tagIndex)
                   /\ tagPc' = "forEach"
                   /\ tagIndex' = tagIndex + 1
                   /\ startIndex' = startIndex
              ELSE /\ startIndex' = NextStartIndex(rebuilt, marker, startIndex)
                   /\ UNCHANGED <<faults, tagPc, tagIndex>>
    /\ UNCHANGED <<individualResult, definedTags, extractedTagNames>>
    /\ UNCHANGED <<critVars, substVars, procVars, imapVars, flatVars, groupVars>>
    /\ UNCHANGED <<folderVars, histVars, queryVars, crudVars>>

\* The while condition fails: the callback returns, forEach goes on.
WhileExit ==
    /\ tagPc = "while"
    /\ ~(startIndex > -1)
    /\ tagPc' = "forEach"
    /\ tagIndex' = tagIndex + 1
    /\ UNCHANGED <<individualResult, definedTags, cleanedContent, extractedTagNames,
                   startIndex, faults>>
    /\ UNCHANGED <<critVars, substVars, procVars, imapVars, flatVars, groupVars>>
    /\ UNCHANGED <<folderVars, histVars, queryVars, crudVars>>

ForEachDone ==
    /\ tagPc = "forEach"
    /\ tagIndex > Len(definedTags)
    /\ tagPc' = "done"
    /\ UNCHANGED <<individualResult, definedTags, cleanedContent, extractedTagNames,
                   tagIndex, startIndex, faults>>
    /\ UNCHANGED <<critVars, substVars, procVars, imapVars, flatVars, groupVars>>
    /\ UNCHANGED <<folderVars, histVars, queryVars, crudVars>>

NextTagLoop == StartParse \/ ForEachTag \/ WhileRemove \/ WhileExit \/ ForEachDone

\* The loop is synchronous code: once entered it keeps running.
SpecTagLoop == InitTagLoop /\ [][NextTagLoop]_vars /\ WF_vars(NextTagLoop)

-----------------------------------------------------------------------------
(* Properties of the tag extraction *)

\* TRUE iff marker occurs somewhere in text, letters compared without case.
OccursIgnoringCase(text, marker) ==
    \E i \in 0..Len(text) :
        /\ i + Len(marker) <= Len(text)
        /\ \A k \in 1..Len(marker) : LowerChar(text[i + k]) = LowerChar(marker[k])

RECURSIVE NamesOfOccurring(_, _)
\* The names of the tags whose marker occurs in text, in the order of the tags.
NamesOfOccurring(text, tags) ==
    IF tags = <<>> THEN <<>>
    ELSE (IF OccursIgnoringCase(text, Head(tags).marker)
          THEN <<Head(tags).name>> ELSE <<>>)
         \o NamesOfOccurring(text, Tail(tags))

\* C4: running the extraction again on the cleaned text it produced finds no
\* marker: no marker of a defined tag occurs in the cleaned text, the matched
\* tag list of the second run is empty and the text is unchanged.
C4_ExtractionIdempotent ==
    tagPc = "done" =>
        /\ \A i \in 1..Len(definedTags) :
               ~OccursIgnoringCase(cleanedContent, definedTags[i].marker)
        /\ ParseTags(cleanedContent, definedTags)
               = [content |-> cleanedContent, tags |-> <<>>]

\* C5: the matched-tag list holds exactly the names of the defined tags whose
\* marker occurs at least once, without regard to case, in the response text,
\* each once and in the order the tags are defined.
C5_MatchedTagsAreOccurring ==
    tagPc = "done" =>
        extractedTagNames = NamesOfOccurring(individualResult, definedTags)

\* C6: the marker-removal loop terminates for every response text and every
\* marker, the empty marker included: the extraction reaches its end, and a
\* removal that leaves the text unchanged ends the work on that marker, keeps
\* the text cleaned so far and goes on with the next tag.
C6_RemovalLoopTerminates ==
    /\ <>(tagPc = "done")
    /\ [][ (/\ tagPc = "while"
            /\ startIndex > -1
            /\ RemoveOccurrence(cleanedContent, startIndex,
                                definedTags[tagIndex].marker) = cleanedContent)
           => (/\ tagPc' = "forEach"
               /\ tagIndex' = tagIndex + 1
               /\ cleanedContent' = cleanedContent
               /\ extractedTagNames' = extractedTagNames) ]_vars

\* C6 witness: the removal of the first tag's marker made no progress, the
\* second tag was still matched and its marker removed, and the parsing ended.
C6_Witness ==
    /\ tagPc = "done"
    /\ faults = <<1>>
    /\ Len(extractedTagNames) = 2
    /\ Len(cleanedContent) < Len(individualResult)

-----------------------------------------------------------------------------
(* Properties of substitutePromptVariables *)

RECURSIVE VerbatimFrom(_, _, _, _)
VerbatimFrom(str, pat, value, pos) ==
    IF pos >= Len(str) THEN <<>>
    ELSE IF pos + Len(pat) <= Len(str) /\ SubSeq(str, pos + 1, pos + Len(pat)) = pat
         THEN value \o VerbatimFrom(str, pat, value, pos + Len(pat))
         ELSE <<str[pos + 1]>> \o VerbatimFrom(str, pat, value, pos + 1)

RECURSIVE VerbatimEach(_, _)
\* Every occurrence of the text {key} replaced by the value as it stands, one
\* variable after the other, and nothing else changed.
VerbatimEach(text, vs) ==
    IF vs = <<>> THEN text
    ELSE VerbatimEach(
             VerbatimFrom(text, <<"{">> \o Head(vs).key \o <<"}">>, Head(vs).value, 0),
             Tail(vs))

\* C7: the result has every occurrence of the exact text {key} replaced by the
\* variable's value, for each variable, and nothing else changed (a placeholder
\* of another name, such as a prefix or an extension of a key, is left as it is).
C7_ReplacesExactPlaceholders ==
    substPc = "returned" => substitutedText = VerbatimEach(promptText, variables)

\* C8: substitution is never an error: for every template and every list of
\* variables with validated keys the call returns a string.
C8_SubstitutionNeverThrows == substPc # "thrown"

-----------------------------------------------------------------------------
(* Properties of the search predicate *)

Kinds(criteria) == { criteria[i].kind : i \in 1..Len(criteria) }

TokenOf(criteria, kind) ==
    criteria[CHOOSE i \in 1..Len(criteria) : criteria[i].kind = kind]

NonBlank(term) == \E i \in 1..Len(term) : term[i] # " "

\* t is s without its leading and trailing blanks.
IsTrimOf(t, s) ==
    \E i, j \in 1..Len(s) :
        /\ i <= j /\ s[i] # " " /\ s[j] # " "
        /\ \A k \in 1..Len(s) : (k < i \/ k > j) => s[k] = " "
        /\ t = SubSeq(s, i, j)

\* How many of the filters of the request are set.
FiltersSet ==
    (IF status \in {"read", "unread"} THEN 1 ELSE 0)
    + (IF startDate # NoDate THEN 1 ELSE 0)
    + (IF endDate # NoDate THEN 1 ELSE 0)
    + (IF NonBlank(subjectSearchTerm) THEN 1 ELSE 0)

\* C9: the predicate holds exactly the tokens of the filters that are set:
\* UNSEEN iff status is unread, SEEN iff status is read, SINCE iff a start date
\* is given, BEFORE iff an end date is given, SUBJECT with the trimmed term iff
\* the term is not blank, each at most once; it is the single token ALL exactly
\* when no filter is set.
C9_PredicateHasExactlyTheSetFilters ==
    critPc = "built" =>
        /\ ("UNSEEN" \in Kinds(searchCriteria)) <=> (status = "unread")
        /\ ("SEEN" \in Kinds(searchCriteria)) <=> (status = "read")
        /\ ("SINCE" \in Kinds(searchCriteria)) <=> (startDate # NoDate)
        /\ ("BEFORE" \in Kinds(searchCriteria)) <=> (endDate # NoDate)
        /\ ("SUBJECT" \in Kinds(searchCriteria)) <=> NonBlank(subjectSearchTerm)
        /\ NonBlank(subjectSearchTerm) =>
               IsTrimOf(TokenOf(searchCriteria, "SUBJECT").term, subjectSearchTerm)
        /\ (searchCriteria = << [kind |-> "ALL"] >>) <=> (FiltersSet = 0)
        /\ ("ALL" \in Kinds(searchCriteria)) <=> (FiltersSet = 0)
        /\ FiltersSet > 0 => Len(searchCriteria) = FiltersSet

\* C9 witness: all four filters are set and the predicate has four tokens.
C9_Witness ==
    /\ critPc = "built"
    /\ status = "unread" /\ startDate # NoDate /\ endDate # NoDate
    /\ subjectSearchTerm = <<" ", "x", "y", " ">>
    /\ Len(searchCriteria) = 4

\* The calendar day after a date.
NextCivilDay(date) ==
    IF date.d < DaysInMonth(date.y, date.m)
    THEN [y |-> date.y, m |-> date.m, d |-> date.d + 1]
    ELSE IF date.m < 12
         THEN [y |-> date.y, m |-> date.m + 1, d |-> 1]
         ELSE [y |-> date.y + 1, m |-> 1, d |-> 1]

\* The bound reads as midnight GMT of the given calendar day.
IsUTCMidnightOf(bound, date) ==
    /\ bound.y = date.y /\ bound.m = date.m /\ bound.d = date.d
    /\ bound.hh = 0 /\ bound.mi = 0 /\ bound.ss = 0 /\ bound.zone = "GMT"

\* C10: the BEFORE bound is the end date's UTC midnight plus exactly 24 hours,
\* that is midnight of the next calendar day, and the SINCE bound is the start
\* date's UTC midnight.
C10_BeforeIsEndPlusOneDay ==
    critPc = "built" =>
        /\ endDate # NoDate =>
               IsUTCMidnightOf(TokenOf(searchCriteria, "BEFORE").date,
                               NextCivilDay(endDate))
        /\ startDate # NoDate =>
               IsUTCMidnightOf(TokenOf(searchCriteria, "SINCE").date, startDate)

\* C10 witness: start and end are the same last day of a year, so the BEFORE
\* bound is in the next year.
C10_Witness ==
    /\ critPc = "built"
    /\ startDate = endDate
    /\ endDate # NoDate /\ endDate.m = 12 /\ endDate.d = 31
    /\ TokenOf(searchCriteria, "BEFORE").date.y = endDate.y + 1

-----------------------------------------------------------------------------
(* Spec: processEmails in individual mode, the completions in any order *)

MaxEmails == 3

\* The emails of a fetch, newest first: subject and date differ from one email
\* to the next; the server identifiers are all different or, for emails of
\* several folders, repeat. Subject and sender are never empty: the server
\* fills in '(no subject)' and '(no sender)'.
EmailAt(i, repeatIds) ==
    [id |-> IF repeatIds THEN 101 + (i % 2) ELSE 100 + i,
     subject |-> [k \in 1..i |-> "s"],
     sender |-> IF i % 2 = 0 THEN <<"p">> ELSE <<"q">>,
     date |-> 20 - i]

EmailLists ==
    { [i \in 1..n |-> EmailAt(i, r)] : n \in 0..MaxEmails, r \in BOOLEAN }

\* What a completion call can deliver: a response (without content, plain,
\* or with a tag marker in it) or an error with its message.
CompletionContents == { <<>>, <<"o", "k">>, <<"[", "[", "u", "]", "]", "o">> }

ErrorMessages == { <<"4", "2", "9">> }

Pending == [state |-> "pending", outcome |-> [kind |-> "none"], data |-> NullResult]

Init ==
    /\ openaiApiKey \in { <<>>, <<"k">> }
    /\ emails \in EmailLists
    /\ promptText = <<"x", "{", "A", "}">>
    /\ variables \in { <<>>, << [key |-> <<"A">>, value |-> <<"v">>] >>,
                       << [key |-> <<"1">>, value |-> <<"v">>] >> }
    /\ substitutedText = <<>> /\ substPc = "idle"
    /\ definedTags \in { <<>>, <<TagU, TagT>> }
    /\ individualResult = <<>> /\ cleanedContent = <<>> /\ extractedTagNames = <<>>
    /\ tagIndex = 0 /\ startIndex = -1 /\ faults = <<>> /\ tagPc = "idle"
    /\ promises = <<>> /\ settleOrder = <<>>
    /\ result = [kind |-> "none"]
    /\ procPc = "call"
    /\ isProcessing = FALSE /\ latestResults = [kind |-> "none"] /\ queryHistory = <<>>
    /\ CritIdle /\ ImapIdle /\ FlatIdle /\ GroupIdle
    /\ FolderIdle /\ HistIdle /\ QueryIdle /\ CrudIdle

\* processEmails up to the await of Promise.all: the checks of the key and of
\* the emails, the substitution (outside the try block, so that what it throws
\* leaves processEmails as it is), and emails.map, which starts every
\* callback; each runs up to its await of the completion call.
CallProcessEmails ==
    /\ procPc = "call"
    /\ IF openaiApiKey = <<>>
       THEN /\ procPc' = "threw"
            /\ UNCHANGED <<result, promises, substitutedText, substPc, isProcessing>>
       ELSE IF Len(emails) = 0
       THEN /\ procPc' = "returned"
            /\ result' = [kind |-> "string"]
            /\ UNCHANGED <<promises, substitutedText, substPc, isProcessing>>
       ELSE LET r == substitutePromptVariables(promptText, variables)
            IN  /\ substitutedText' = r.text
                /\ substPc' = IF r.thrown THEN "thrown" ELSE "returned"
                /\ IF r.thrown
                   THEN /\ procPc' = "threw"
                        /\ UNCHANGED <<result, promises, isProcessing>>
                   ELSE /\ isProcessing' = TRUE
                        /\ promises' = [i \in 1..Len(emails) |-> Pending]
                        /\ procPc' = "awaiting"
                        /\ UNCHANGED result
    /\ UNCHANGED <<openaiApiKey, emails, settleOrder, promptText, variables,
                   latestResults, queryHistory>>
    /\ UNCHANGED <<critVars, tagVars, imapVars, flatVars, groupVars>>
    /\ UNCHANGED <<folderVars, histVars, queryVars, crudVars>>

\* The completion call of email index resolves with content: the rest of the
\* try block runs (tag parsing, processedData) and the callback returns.
CompletionResolves(index, content) ==
    /\ procPc = "awaiting"
    /\ promises[index].state = "pending"
    /\ promises' = [promises EXCEPT ![index] =
           [state |-> "fulfilled",
            outcome |-> [kind |-> "response", content |-> content],
            data |-> SuccessResult(SourceEmail(emails, index, settleOrder),
                                   content, definedTags)]]
    /\ settleOrder' = Append(settleOrder, index)
    /\ UNCHANGED <<openaiApiKey, emails, result, procPc, isProcessing, latestResults,
                   queryHistory>>
    /\ UNCHANGED <<critVars, substVars, tagVars, imapVars, flatVars, groupVars>>
    /\ UNCHANGED <<folderVars, histVars, queryVars, crudVars>>

\* The completion call of email index fails with message: the catch block
\* builds the error result and the callback returns it.
CompletionFails(index, message) ==
    /\ procPc = "awaiting"
    /\ promises[index].state = "pending"
    /\ promises' = [promises EXCEPT ![index] =
           [state |-> "fulfilled",
            outcome |-> [kind |-> "error", message |-> message],
            data |-> CatchResult(SourceEmail(emails, index, settleOrder), message)]]
    /\ settleOrder' = Append(settleOrder, index)
    /\ UNCHANGED <<openaiApiKey, emails, result, procPc, isProcessing, latestResults,
                   queryHistory>>
    /\ UNCHANGED <<critVars, substVars, tagVars, imapVars, flatVars, groupVars>>
    /\ UNCHANGED <<folderVars, histVars, queryVars, crudVars>>

\* Every callback has returned: Promise.all resolves with their values in the
\* order of the emails and the nulls are filtered out; the query is saved to
\* the history with the original prompt, the latest results are set, the
\* array is returned and the finally block clears isProcessing. (The write of
\* the history to the local storage is taken to succeed.)
PromiseAllResolves ==
    /\ procPc = "awaiting"
    /\ \A i \in 1..Len(promises) : promises[i].state = "fulfilled"
    /\ LET array == [kind |-> "array", items |-> FilterNonNull(promises)]
       IN  /\ result' = array
           /\ queryHistory' = saveQueryToHistory(queryHistory, historyClock + 1,
                                                 promptText, array, TRUE, emails)
           /\ historyClock' = historyClock + 1
           /\ latestResults' = array
    /\ isProcessing' = FALSE
    /\ procPc' = "returned"
    /\ UNCHANGED <<openaiApiKey, emails, promises, settleOrder>>
    /\ UNCHANGED <<critVars, substVars, tagVars, imapVars, flatVars, groupVars>>
    /\ UNCHANGED <<folderVars, queryVars, crudVars>>

Next ==
    \/ CallProcessEmails
    \/ \E i \in 1..Len(promises) : \E c \in CompletionContents : CompletionResolves(i, c)
    \/ \E i \in 1..Len(promises) : \E m \in ErrorMessages : CompletionFails(i, m)
    \/ PromiseAllResolves

Spec == Init /\ [][Next]_vars

-----------------------------------------------------------------------------
(* Properties of processEmails in individual mode *)

Dispatched == Len(promises) > 0

Failed(i) == promises[i].outcome.kind = "error"

Succeeded(i) == promises[i].outcome.kind = "response"

\* C1: in individual mode processEmails returns exactly one result per
\* dispatched email, whichever completion calls fail: once the emails are
\* dispatched it does not throw, and the array it returns is as long as the
\* list of emails.
C1_OneResultPerEmail ==
    Dispatched =>
        /\ procPc # "threw"
        /\ procPc = "returned" =>
               /\ result.kind = "array"
               /\ Len(result.items) = Len(emails)

\* C1 witness: three emails were dispatched, some call failed, some succeeded,
\* and processEmails returned.
C1_Witness ==
    /\ procPc = "returned" /\ Len(emails) = 3 /\ result.kind = "array"
    /\ \E i, j \in 1..Len(promises) : Failed(i) /\ Succeeded(j)
    /\ Len(result.items) = 3

\* C2: a failure of one email's completion call is absorbed into that email's
\* own result: the result of a failed email has the error field set to the
\* message and the message as content, the result of an email whose call
\* succeeded has no error field and the cleaned response as content, and
\* processEmails does not throw.
C2_FailureAbsorbedPerEmail ==
    Dispatched =>
        /\ procPc # "threw"
        /\ procPc = "returned" =>
               /\ result.kind = "array"
               /\ Len(result.items) = Len(promises)
               /\ \A i \in 1..Len(promises) :
                      /\ Failed(i) =>
                             /\ result.items[i].hasError
                             /\ result.items[i].error = promises[i].outcome.message
                             /\ result.items[i].content
                                    = ErrorContentPrefix \o promises[i].outcome.message
                      /\ Succeeded(i) =>
                             /\ ~result.items[i].hasError
                             /\ result.items[i].content
                                    = ParseTags(promises[i].outcome.content,
                                                definedTags).content

\* C2 witness: the second of three calls failed, the other two succeeded and
\* their results carry no error.
C2_Witness ==
    /\ procPc = "returned" /\ Len(promises) = 3 /\ result.kind = "array"
    /\ Failed(2) /\ Succeeded(1) /\ Succeeded(3)
    /\ result.items[2].hasError
    /\ ~result.items[1].hasError /\ ~result.items[3].hasError

\* C3: whatever the order in which the completion calls resolve or fail, the
\* result of email X carries X's identifier, subject, sender and date, and
\* the output of X's own completion call.
C3_ResultCarriesItsEmail ==
    (procPc = "returned" /\ Dispatched) =>
        /\ result.kind = "array"
        /\ Len(result.items) = Len(emails)
        /\ \A i \in 1..Len(emails) :
               /\ result.items[i].originalUid = emails[i].id
               /\ result.items[i].subject = emails[i].subject
               /\ result.items[i].sender = emails[i].sender
               /\ result.items[i].date = emails[i].date
               /\ Failed(i) => result.items[i].error = promises[i].outcome.message
               /\ Succeeded(i) =>
                      result.items[i].content
                          = ParseTags(promises[i].outcome.content, definedTags).content

\* C3 witness: the calls completed in another order than they were sent, the
\* last email first, and one of them failed.
C3_Witness ==
    /\ procPc = "returned" /\ Len(emails) = 3
    /\ settleOrder = <<3, 1, 2>>
    /\ Failed(1) /\ Succeeded(3)

-----------------------------------------------------------------------------
(* The folder hierarchy of a mailbox, and flattenFolders                   *)
(*                                                                         *)
(* getBoxes returns an object that maps each folder name to its attributes,*)
(* its delimiter and its children.  It is modelled as the sequence of its  *)
(* entries in key order, each [name, delimiter, attribs, children].        *)

Noselect == "\\Noselect"

\* A variant of flattenFolders that does not descend below a \Noselect folder.
RECURSIVE flattenFolders_StopsAtNoselect(_, _)
flattenFolders_StopsAtNoselect(hierarchy, prefix) ==
    IF hierarchy = <<>> THEN <<>>
    ELSE LET box == Head(hierarchy)
             currentPath == IF prefix # <<>>
                            THEN prefix \o box.delimiter \o box.name
                            ELSE box.name
         IN  (IF Noselect \notin box.attribs
              THEN <<currentPath>>
                       \o flattenFolders_StopsAtNoselect(box.children, currentPath)
              ELSE <<>>)
             \o flattenFolders_StopsAtNoselect(Tail(hierarchy), prefix)

\* flattenFolders(boxHierarchy, prefix): the paths it pushes to folderNames, in
\* the order it pushes them.  A folder's path is its name at the top level and
\* otherwise prefix + delimiter + name with the folder's own delimiter.
RECURSIVE flattenFolders(_, _)
flattenFolders(hierarchy, prefix) ==
    IF hierarchy = <<>> THEN <<>>
    ELSE LET box == Head(hierarchy)
             currentPath == IF prefix # <<>>
                            THEN prefix \o box.delimiter \o box.name
                            ELSE box.name
         IN  (IF Noselect \notin box.attribs THEN <<currentPath>> ELSE <<>>)
             \o (IF box.children # <<>>
                 THEN flattenFolders(box.children, currentPath)
                 ELSE <<>>)
             \o flattenFolders(Tail(hierarchy), prefix)

\* Hierarchies to flatten: folders named a and b, delimiters / and ., with and
\* without \Noselect, two folders wide and two deep, or one wide and three deep.
BoxNames == { <<"a">>, <<"b">> }

Delimiters == { <<"/">>, <<".">> }

AttribSets == { {}, {Noselect} }

BoxesOver(childLists) ==
    [name : BoxNames, delimiter : Delimiters, attribs : AttribSets, children : childLists]

\* An object has each key once.
DistinctNames(hierarchy) ==
    \A i, j \in 1..Len(hierarchy) : i # j => hierarchy[i].name # hierarchy[j].name

HierarchiesOf(S) ==
    { h \in SeqsUpTo(S, Cardinality(BoxNames)) : DistinctNames(h) }

SingleFolderHierarchies(S) == { <<>> } \cup { <<box>> : box \in S }

LeafBoxes == BoxesOver({ <<>> })

WideHierarchies == HierarchiesOf(BoxesOver(HierarchiesOf(LeafBoxes)))

DeepHierarchies ==
    SingleFolderHierarchies(
        BoxesOver(SingleFolderHierarchies(BoxesOver(HierarchiesOf(LeafBoxes)))))

BoxHierarchies == WideHierarchies \cup DeepHierarchies

-----------------------------------------------------------------------------
(* SpecFlatten: flattenFolders applied to what getBoxes returned *)

RequestIdle ==
    /\ endpoint = "none" /\ detailsPresent = FALSE /\ fetchAllFolders = FALSE
    /\ folder = <<>> /\ maxResults = 0 /\ mailbox = <<>>
    /\ imapPc = "idle" /\ readyFired = FALSE /\ errorFired = FALSE
    /\ connectionEnded = FALSE /\ endCalls = 0 /\ res = [kind |-> "none"]
    /\ responsesSent = 0
    /\ perFolderLimit = 0 /\ folderIndex = 0
    /\ allFetchedEmails = <<>> /\ queried = <<>> /\ folderOutcome = <<>>

InitFlatten ==
    /\ boxes \in BoxHierarchies
    /\ folderNames = <<>>
    /\ flatPc = "call"
    /\ RequestIdle
    /\ CritIdle /\ SubstIdle /\ TagIdle /\ ProcIdle /\ GroupIdle
    /\ FolderIdle /\ HistIdle /\ QueryIdle /\ CrudIdle

FlattenFolders ==
    /\ flatPc = "call"
    /\ folderNames' = flattenFolders(boxes, <<>>)
    /\ flatPc' = "done"
    /\ UNCHANGED <<endpoint, detailsPresent, fetchAllFolders, folder, maxResults, boxes,
                   mailbox, imapPc, readyFired, errorFired, connectionEnded, endCalls,
                   res, responsesSent, perFolderLimit, folderIndex, allFetchedEmails, queried,
                   folderOutcome>>
    /\ UNCHANGED <<critVars, substVars, tagVars, procVars, groupVars>>
    /\ UNCHANGED <<folderVars, histVars, queryVars, crudVars>>

NextFlatten == FlattenFolders

SpecFlatten == InitFlatten /\ [][NextFlatten]_vars

\* Every folder of a hierarchy with its path: the parent's path joined to the
\* folder's name with the folder's own delimiter.
RECURSIVE FoldersOf(_, _)
FoldersOf(hierarchy, parentPath) ==
    UNION { LET box == hierarchy[i]
                path == IF parentPath = <<>> THEN box.name
                        ELSE parentPath \o box.delimiter \o box.name
            IN  { [path |-> path, selectable |-> Noselect \notin box.attribs] }
                    \cup FoldersOf(box.children, path)
          : i \in 1..Len(hierarchy) }

PathsPushed == { folderNames[k] : k \in 1..Len(folderNames) }

\* C18: flattenFolders never outputs the path of a \Noselect folder and
\* outputs the path of every selectable folder, the selectable folders below
\* a \Noselect folder included, each path being the parent's path joined to
\* the folder's name with the folder's own delimiter.
C18_FlattenKeepsExactlyTheSelectable ==
    flatPc = "done" =>
        /\ \A f \in FoldersOf(boxes, <<>>) : f.selectable <=> f.path \in PathsPushed
        /\ PathsPushed \subseteq { f.path : f \in FoldersOf(boxes, <<>>) }

\* C18 witness: a \Noselect folder three levels deep is left out while the
\* selectable folder below it and its \Noselect parent's name are joined with
\* each folder's own delimiter.
C18_Witness ==
    /\ flatPc = "done"
    /\ Len(boxes) = 1 /\ Noselect \in boxes[1].attribs
    /\ Len(boxes[1].children) = 1
    /\ boxes[1].children[1].delimiter = <<".">>
    /\ Noselect \notin boxes[1].children[1].attribs
    /\ Len(boxes[1].children[1].children) = 2
    /\ boxes[1].children[1].children[1].delimiter = <<"/">>
    /\ Noselect \in boxes[1].children[1].children[2].attribs
    /\ folderNames = << boxes[1].name \o <<".">> \o boxes[1].children[1].name,
                        boxes[1].name \o <<".">> \o boxes[1].children[1].name
                            \o <<"/">> \o boxes[1].children[1].children[1].name >>

-----------------------------------------------------------------------------
(* /api/fetchEmails and /api/testConnection                                *)
(*                                                                         *)
(* A mailbox is the hierarchy getBoxes returns and, for each folder that   *)
(* can be opened, the messages the search predicate matches in it, in UID  *)
(* order: message k of a folder has UID k and the date mailbox[folder][k]. *)

LowerLetters == <<"a", "e", "i", "l", "m", "n", "s", "t">>

UpperLetters == <<"A", "E", "I", "L", "M", "N", "S", "T">>

\* String.prototype.toUpperCase on one character of the modelled alphabet.
UpperChar(c) ==
    IF \E k \in 1..Len(LowerLetters) : LowerLetters[k] = c
    THEN UpperLetters[CHOOSE k \in 1..Len(LowerLetters) : LowerLetters[k] = c]
    ELSE c

ToUpperCase(s) == [i \in 1..Len(s) |-> UpperChar(s[i])]

Min(a, b) == IF a < b THEN a ELSE b

Max(a, b) == IF a > b THEN a ELSE b

\* Array.prototype.slice(-n): the last n elements, and all of them when n is 0
\* (slice(-0) is slice(0)) or more than the length.
SliceLast(arr, n) ==
    IF n = 0 \/ n >= Len(arr) THEN arr ELSE SubSeq(arr, Len(arr) - n + 1, Len(arr))

\* Array.prototype.slice(0, n) for n >= 0.
SliceFirst(arr, n) == SubSeq(arr, 1, Min(n, Len(arr)))

\* The record fetchAndParseEmailsFromFolder builds for the message with this UID.
EmailOf(folderName, uid) ==
    [id |-> uid, date |-> mailbox[folderName][uid], folder |-> folderName]

\* A variant of the catch of fetchAndParseEmailsFromFolder that leaves the
\* error of openBox or search to the caller.
OpenOrSearchError_Rethrown == [rejected |-> TRUE, emails |-> <<>>]

\* The catch of fetchAndParseEmailsFromFolder: an error of openBox or of
\* search is logged and the function returns [].
OpenOrSearchError == [rejected |-> FALSE, emails |-> <<>>]

\* fetchAndParseEmailsFromFolder, for each way the folder's commands can end:
\* openBox fails, search fails, the fetch stream emits an error, or all
\* succeed.  The promise of the fetch is returned from inside the try block
\* without await, so that its rejection goes to the caller.
fetchAndParseEmailsFromFolder(folderName, outcome, maxResultsPerFolder) ==
    IF outcome \in {"openFails", "searchFails"} THEN OpenOrSearchError
    ELSE LET uids == [k \in 1..Len(mailbox[folderName]) |-> k]
             limitedUIDs == SliceLast(uids, maxResultsPerFolder)
         IN  IF uids = <<>> THEN [rejected |-> FALSE, emails |-> <<>>]
             ELSE IF outcome = "fetchFails" THEN [rejected |-> TRUE, emails |-> <<>>]
             ELSE [rejected |-> FALSE,
                   emails |-> [k \in 1..Len(limitedUIDs) |->
                                  EmailOf(folderName, limitedUIDs[k])]]

\* A variant of the per-folder limit without the multiplier and the floor.
perFolderLimitOf_EvenShare(requested, folderCount) ==
    (requested + Max(1, folderCount) - 1) \div Max(1, folderCount)

\* Math.max(10, Math.ceil(maxResults * 1.5 / Math.max(1, folderNames.length))).
\* maxResults * 1.5 is exact in double arithmetic and the quotient is an
\* integer or at least 1/(2n) away from one, so Math.ceil yields the exact
\* ceiling of 3 * maxResults / (2 * n).
perFolderLimitOf(requested, folderCount) ==
    Max(10, (3 * requested + 2 * Max(1, folderCount) - 1) \div (2 * Max(1, folderCount)))

\* The folders the loop skips.
Skipped(folderName) ==
    \/ ToUpperCase(folderName) = <<"[", "G", "M", "A", "I", "L", "]">>
    \/ Includes(ToUpperCase(folderName),
                <<"\\", "N", "O", "S", "E", "L", "E", "C", "T">>)

\* The index of the first folder from i on that the loop does not skip, or
\* one past the end of folderNames.
RECURSIVE NextFolderIndex(_, _)
NextFolderIndex(names, i) ==
    IF i > Len(names) THEN i
    ELSE IF Skipped(names[i]) THEN NextFolderIndex(names, i + 1)
    ELSE i

\* A variant of the sort that leaves the emails in the order of collection.
SortByDateDesc_Unsorted(arr) == arr

RECURSIVE InsertByDate(_, _)
\* e placed behind the emails that are not older than it.
InsertByDate(sorted, e) ==
    IF sorted = <<>> THEN <<e>>
    ELSE IF e.date - Head(sorted).date > 0 THEN <<e>> \o sorted
    ELSE <<Head(sorted)>> \o InsertByDate(Tail(sorted), e)

RECURSIVE SortByDateDesc(_)
\* allFetchedEmails.sort((a, b) => (b.date || 0) - (a.date || 0)); the sort is
\* stable.
SortByDateDesc(arr) ==
    IF arr = <<>> THEN <<>>
    ELSE InsertByDate(SortByDateDesc(SubSeq(arr, 1, Len(arr) - 1)), arr[Len(arr)])

\* What the catch around one folder's fetch does with a rejection: the loop
\* over all folders goes on to the next folder, the single-folder branch
\* answers with handleImapError.
AfterFolderError_AlwaysFails(allFolders) == "handleImapError"

AfterFolderError(allFolders) == IF allFolders THEN "continue" ELSE "handleImapError"

\* A variant of handleImapError that leaves the connection open.
EndCallsOnError_None(ended) == 0

\* The calls of imap.end() that handleImapError makes.
EndCallsOnError(ended) == IF ~ended THEN 1 ELSE 0

NoResponse == [kind |-> "none"]

\* A variant of the guard that answers whatever was sent before.
MaySend_Always(headersSent) == TRUE

\* if (!res.headersSent)
MaySend(headersSent) == ~headersSent

\* res.json(...) behind the guard on res.headersSent; headersSent is true once
\* a response was sent.
Respond(answer) ==
    /\ res' = IF MaySend(responsesSent > 0) THEN answer ELSE res
    /\ responsesSent' = responsesSent + (IF MaySend(responsesSent > 0) THEN 1 ELSE 0)

\* handleImapError(err, context)
HandleImapError ==
    /\ connectionEnded' = TRUE
    /\ endCalls' = endCalls + EndCallsOnError(connectionEnded)
    /\ Respond([kind |-> "error", status |-> 500])

\* The final processing of the ready handler: sort, truncate, end, respond.
ProcessFinalResults(collected) ==
    /\ allFetchedEmails' = SortByDateDesc(collected)
    /\ connectionEnded' = TRUE
    /\ endCalls' = endCalls + (IF ~connectionEnded THEN 1 ELSE 0)
    /\ Respond([kind |-> "emails", status |-> 200,
                emails |-> SliceFirst(SortByDateDesc(collected), maxResults)])
    /\ imapPc' = "done"

-----------------------------------------------------------------------------
(* Bounded requests and mailboxes *)

MaxMessages == 3

MessageDates == { 1, 2 }

Inbox == <<"I", "N", "B", "O", "X">>
Gmail == <<"[", "G", "m", "a", "i", "l", "]">>
AllMail == <<"A", "l", "l">>
Sent == <<"S", "e", "n", "t">>
MissingFolder == <<"N", "o", "n", "e">>

Folder(name, attribs, children) ==
    [name |-> name, delimiter |-> <<"/">>, attribs |-> attribs, children |-> children]

\* No folder; INBOX alone; INBOX and the \Noselect container [Gmail] with two
\* folders; INBOX and a selectable folder named [Gmail].
MailboxHierarchies ==
    { <<>>,
      << Folder(Inbox, {}, <<>>) >>,
      << Folder(Inbox, {}, <<>>),
         Folder(Gmail, {Noselect},
                << Folder(AllMail, {}, <<>>), Folder(Sent, {}, <<>>) >>) >>,
      << Folder(Inbox, {}, <<>>), Folder(Gmail, {}, <<>>) >> }

MaxResultsInputs == { 2, 3, 100 }

DateLists == SeqsUpTo(MessageDates, MaxMessages)

SelectablePaths(hierarchy) ==
    { f.path : f \in { g \in FoldersOf(hierarchy, <<>>) : g.selectable } }

RECURSIVE TotalMessages(_, _)
TotalMessages(contents, paths) ==
    IF paths = {} THEN 0
    ELSE LET path == CHOOSE q \in paths : TRUE
         IN  Len(contents[path]) + TotalMessages(contents, paths \ {path})

\* The matching messages of a mailbox: at most MaxMessages in all, with dates
\* of MessageDates.
MailboxesOf(hierarchy) ==
    { contents \in [SelectablePaths(hierarchy) -> DateLists] :
        TotalMessages(contents, SelectablePaths(hierarchy)) <= MaxMessages }

\* How the commands on one folder can end.
OutcomesOf(folderName) ==
    IF folderName \notin DOMAIN mailbox THEN { "openFails" }
    ELSE IF mailbox[folderName] = <<>> THEN { "ok", "openFails", "searchFails" }
    ELSE { "ok", "openFails", "searchFails", "fetchFails" }

-----------------------------------------------------------------------------
(* SpecImap: one request to /api/fetchEmails or to /api/testConnection *)

InitImap ==
    /\ endpoint \in { "fetchEmails", "testConnection" }
    /\ detailsPresent \in BOOLEAN
    /\ IF endpoint = "fetchEmails" /\ detailsPresent
       THEN /\ boxes \in MailboxHierarchies
            /\ mailbox \in MailboxesOf(boxes)
            /\ fetchAllFolders \in BOOLEAN
            /\ folder \in (IF fetchAllFolders THEN { Inbox }
                           ELSE SelectablePaths(boxes) \cup { MissingFolder })
            /\ maxResults \in MaxResultsInputs
       ELSE /\ boxes = <<>> /\ mailbox = <<>> /\ fetchAllFolders = FALSE
            /\ folder = <<>> /\ maxResults = 0
    /\ imapPc = "request"
    /\ readyFired = FALSE /\ errorFired = FALSE
    /\ connectionEnded = FALSE /\ endCalls = 0 /\ res = NoResponse
    /\ responsesSent = 0
    /\ folderNames = <<>> /\ perFolderLimit = 0 /\ folderIndex = 0
    /\ allFetchedEmails = <<>> /\ queried = <<>> /\ folderOutcome = <<>>
    /\ CritIdle /\ SubstIdle /\ TagIdle /\ ProcIdle /\ FlatIdle /\ GroupIdle
    /\ FolderIdle /\ HistIdle /\ QueryIdle /\ CrudIdle

\* The handler up to imap.connect(): the request is answered with status 400
\* when connection details are missing, else the connection is created and
\* its two listeners are registered.
HandleRequest ==
    /\ imapPc = "request"
    /\ IF detailsPresent
       THEN imapPc' = "connecting" /\ UNCHANGED <<res, responsesSent>>
       ELSE /\ imapPc' = "done"
            /\ res' = [kind |-> "error", status |-> 400]
            /\ responsesSent' = responsesSent + 1
    /\ UNCHANGED <<endpoint, detailsPresent, fetchAllFolders, folder, maxResults, boxes,
                   mailbox, readyFired, errorFired, connectionEnded, endCalls,
                   folderNames, perFolderLimit, folderIndex, allFetchedEmails, queried,
                   folderOutcome>>
    /\ UNCHANGED <<critVars, substVars, tagVars, procVars, flatVars, groupVars>>
    /\ UNCHANGED <<folderVars, histVars, queryVars, crudVars>>

\* The ready listener of /api/testConnection.
TestReady ==
    /\ endpoint = "testConnection" /\ imapPc = "connecting" /\ ~readyFired
    /\ readyFired' = TRUE
    /\ endCalls' = endCalls + 1
    /\ Respond([kind |-> "success", status |-> 200])
    /\ imapPc' = "done"
    /\ UNCHANGED <<endpoint, detailsPresent, fetchAllFolders, folder, maxResults, boxes,
                   mailbox, errorFired, connectionEnded, folderNames, perFolderLimit,
                   folderIndex, allFetchedEmails, queried, folderOutcome>>
    /\ UNCHANGED <<critVars, substVars, tagVars, procVars, flatVars, groupVars>>
    /\ UNCHANGED <<folderVars, histVars, queryVars, crudVars>>

\* The error listener of /api/testConnection.
TestError ==
    /\ endpoint = "testConnection" /\ imapPc \in { "connecting", "done" }
    /\ detailsPresent /\ ~errorFired
    /\ errorFired' = TRUE
    /\ endCalls' = endCalls + 1
    /\ Respond([kind |-> "error", status |-> 500])
    /\ UNCHANGED <<endpoint, detailsPresent, fetchAllFolders, folder, maxResults, boxes,
                   mailbox, imapPc, readyFired, connectionEnded, folderNames,
                   perFolderLimit, folderIndex, allFetchedEmails, queried,
                   folderOutcome>>
    /\ UNCHANGED <<critVars, substVars, tagVars, procVars, flatVars, groupVars>>
    /\ UNCHANGED <<folderVars, histVars, queryVars, crudVars>>

\* The error listener of /api/fetchEmails, at any time after imap.connect().
FetchError ==
    /\ endpoint = "fetchEmails" /\ imapPc \notin { "idle", "request" }
    /\ detailsPresent /\ ~errorFired
    /\ errorFired' = TRUE
    /\ HandleImapError
    /\ UNCHANGED <<endpoint, detailsPresent, fetchAllFolders, folder, maxResults, boxes,
                   mailbox, imapPc, readyFired, folderNames, perFolderLimit,
                   folderIndex, allFetchedEmails, queried, folderOutcome>>
    /\ UNCHANGED <<critVars, substVars, tagVars, procVars, flatVars, groupVars>>
    /\ UNCHANGED <<folderVars, histVars, queryVars, crudVars>>

\* The ready listener of /api/fetchEmails up to its first await: getBoxes in
\* all-folders mode, the fetch of the requested folder otherwise.
FetchReady ==
    /\ endpoint = "fetchEmails" /\ imapPc = "connecting" /\ ~readyFired
    /\ readyFired' = TRUE
    /\ IF fetchAllFolders
       THEN imapPc' = "getBoxes" /\ UNCHANGED queried
       ELSE imapPc' = "single" /\ queried' = Append(queried, folder)
    /\ UNCHANGED <<endpoint, detailsPresent, fetchAllFolders, folder, maxResults, boxes,
                   mailbox, errorFired, connectionEnded, endCalls, res, responsesSent,
                   folderNames,
                   perFolderLimit, folderIndex, allFetchedEmails, folderOutcome>>
    /\ UNCHANGED <<critVars, substVars, tagVars, procVars, flatVars, groupVars>>
    /\ UNCHANGED <<folderVars, histVars, queryVars, crudVars>>

\* getBoxes fails: the catch around the processing answers with handleImapError.
GetBoxesFails ==
    /\ imapPc = "getBoxes"
    /\ HandleImapError
    /\ imapPc' = "done"
    /\ UNCHANGED <<endpoint, detailsPresent, fetchAllFolders, folder, maxResults, boxes,
                   mailbox, readyFired, errorFired, folderNames, perFolderLimit,
                   folderIndex, allFetchedEmails, queried, folderOutcome>>
    /\ UNCHANGED <<critVars, substVars, tagVars, procVars, flatVars, groupVars>>
    /\ UNCHANGED <<folderVars, histVars, queryVars, crudVars>>

\* getBoxes succeeds: the folders are flattened, the per-folder limit is
\* computed and the loop runs to the fetch of the first folder it does not
\* skip, or to the final processing when there is none.
GetBoxesSucceeds ==
    /\ imapPc = "getBoxes"
    /\ LET names == flattenFolders(boxes, <<>>)
           first == NextFolderIndex(names, 1)
       IN  /\ folderNames' = names
           /\ perFolderLimit' = perFolderLimitOf(maxResults, Len(names))
           /\ folderIndex' = first
           /\ IF first > Len(names)
              THEN ProcessFinalResults(<<>>) /\ UNCHANGED queried
              ELSE /\ imapPc' = "folder"
                   /\ queried' = Append(queried, names[first])
                   /\ UNCHANGED <<allFetchedEmails, connectionEnded, endCalls, res,
                               responsesSent>>
    /\ UNCHANGED <<endpoint, detailsPresent, fetchAllFolders, folder, maxResults, boxes,
                   mailbox, readyFired, errorFired, folderOutcome>>
    /\ UNCHANGED <<critVars, substVars, tagVars, procVars, flatVars, groupVars>>
    /\ UNCHANGED <<folderVars, histVars, queryVars, crudVars>>

\* The fetch of the current folder of the loop settles: its emails are
\* appended, or its rejection is caught, and the loop runs to the fetch of
\* the next folder or to the final processing.
FolderSettles(outcome) ==
    /\ imapPc = "folder"
    /\ outcome \in OutcomesOf(folderNames[folderIndex])
    /\ LET settled == fetchAndParseEmailsFromFolder(folderNames[folderIndex], outcome,
                                                    perFolderLimit)
           collected == IF settled.rejected THEN allFetchedEmails
                        ELSE allFetchedEmails \o settled.emails
           next == NextFolderIndex(folderNames, folderIndex + 1)
       IN  /\ folderOutcome' = Append(folderOutcome, outcome)
           /\ IF settled.rejected /\ AfterFolderError(TRUE) # "continue"
              THEN /\ HandleImapError
                   /\ imapPc' = "done"
                   /\ UNCHANGED <<allFetchedEmails, folderIndex, queried>>
              ELSE /\ folderIndex' = next
                   /\ IF next > Len(folderNames)
                      THEN ProcessFinalResults(collected) /\ UNCHANGED queried
                      ELSE /\ imapPc' = "folder"
                           /\ allFetchedEmails' = collected
                           /\ queried' = Append(queried, folderNames[next])
                           /\ UNCHANGED <<connectionEnded, endCalls, res, responsesSent>>
    /\ UNCHANGED <<endpoint, detailsPresent, fetchAllFolders, folder, maxResults, boxes,
                   mailbox, readyFired, errorFired, folderNames, perFolderLimit>>
    /\ UNCHANGED <<critVars, substVars, tagVars, procVars, flatVars, groupVars>>
    /\ UNCHANGED <<folderVars, histVars, queryVars, crudVars>>

\* The fetch of the single requested folder settles.
SingleFolderSettles(outcome) ==
    /\ imapPc = "single"
    /\ outcome \in OutcomesOf(folder)
    /\ LET settled == fetchAndParseEmailsFromFolder(folder, outcome, maxResults)
       IN  /\ folderOutcome' = Append(folderOutcome, outcome)
           /\ IF settled.rejected /\ AfterFolderError(FALSE) # "continue"
              THEN /\ HandleImapError
                   /\ imapPc' = "done"
                   /\ UNCHANGED allFetchedEmails
              ELSE ProcessFinalResults(IF settled.rejected THEN <<>> ELSE settled.emails)
    /\ UNCHANGED <<endpoint, detailsPresent, fetchAllFolders, folder, maxResults, boxes,
                   mailbox, readyFired, errorFired, folderNames, perFolderLimit,
                   folderIndex, queried>>
    /\ UNCHANGED <<critVars, substVars, tagVars, procVars, flatVars, groupVars>>
    /\ UNCHANGED <<folderVars, histVars, queryVars, crudVars>>

FolderOutcomes == { "ok", "openFails", "searchFails", "fetchFails" }

NextImap ==
    \/ HandleRequest
    \/ TestReady
    \/ TestError
    \/ FetchReady
    \/ FetchError
    \/ GetBoxesFails
    \/ GetBoxesSucceeds
    \/ \E outcome \in FolderOutcomes : FolderSettles(outcome)
    \/ \E outcome \in FolderOutcomes : SingleFolderSettles(outcome)

SpecImap == InitImap /\ [][NextImap]_vars

-----------------------------------------------------------------------------
(* Properties of one request *)

FetchAnswered == endpoint = "fetchEmails" /\ res # NoResponse

BoxesListed == perFolderLimit > 0

LimitPassed == IF fetchAllFolders THEN perFolderLimit ELSE maxResults

\* The matching messages of a folder that a limit keeps: those with the
\* highest UIDs.
MessagesKept(folderName, limit) ==
    LET total == Len(mailbox[folderName])
        first == IF limit >= total THEN 1 ELSE total - limit + 1
    IN  [k \in 1..(total - first + 1) |->
            [id |-> first + k - 1, date |-> mailbox[folderName][first + k - 1],
             folder |-> folderName]]

\* The messages of the first k queried folders whose commands all succeeded.
RECURSIVE CollectedUpTo(_)
CollectedUpTo(k) ==
    IF k = 0 THEN <<>>
    ELSE CollectedUpTo(k - 1)
             \o (IF folderOutcome[k] = "ok" THEN MessagesKept(queried[k], LimitPassed)
                 ELSE <<>>)

Elements(arr) == { arr[k] : k \in 1..Len(arr) }

\* C11: in single-folder mode a requested folder that cannot be opened or
\* searched fails the whole request: the client gets an error response,
\* not a list of emails.
C11_SingleFolderFailureFailsRequest ==
    ( /\ endpoint = "fetchEmails" /\ ~fetchAllFolders /\ imapPc = "done"
      /\ folderOutcome # <<>>
      /\ folderOutcome[1] \in { "openFails", "searchFails" } )
        => res.kind = "error"

\* C12: in all-folders mode a folder that cannot be opened, searched or
\* fetched never aborts the request: every folder the loop does not skip is
\* queried, and unless the connection itself reported an error the answer is
\* the list of the emails of the folders that did not fail, newest first and
\* truncated to maxResults.
C12_FolderFailureNeverAborts ==
    (endpoint = "fetchEmails" /\ fetchAllFolders /\ BoxesListed /\ imapPc = "done") =>
        /\ queried = SelectSeq(folderNames, LAMBDA name : ~Skipped(name))
        /\ Len(folderOutcome) = Len(queried)
        /\ res.kind = "emails" \/ errorFired
        /\ res.kind = "emails" =>
               /\ Elements(res.emails)
                      \subseteq Elements(CollectedUpTo(Len(queried)))
               /\ Len(res.emails) = Min(maxResults, Len(CollectedUpTo(Len(queried))))

\* C12 witness: the first folder's fetch stream fails, the second folder's
\* search fails, the third folder is read and its email is returned.
C12_Witness ==
    /\ endpoint = "fetchEmails" /\ fetchAllFolders /\ imapPc = "done"
    /\ folderOutcome = <<"fetchFails", "searchFails", "ok">>
    /\ res.kind = "emails" /\ Len(res.emails) = 1
    /\ res.emails[1].folder = queried[3]

\* C13: for every request to /api/fetchEmails or /api/testConnection and
\* every order of the ready and error events, imap.end() is called at most
\* once.
C13_EndInvokedAtMostOnce == endCalls <= 1

\* C14: once the connection of a /api/fetchEmails request is created, the
\* request is not answered before imap.end() has been called, whether the
\* answer is the emails, a single-folder failure, an exception of the
\* processing or a connection error.
C14_EndInvokedBeforeAnswer ==
    (FetchAnswered /\ detailsPresent) => endCalls >= 1

\* C14 witness: the connection reports an error while a folder is being
\* fetched; the request is answered with status 500 and the connection ended.
C14_Witness ==
    /\ FetchAnswered /\ detailsPresent
    /\ imapPc = "folder" /\ errorFired
    /\ res.kind = "error" /\ res.status = 500 /\ endCalls = 1

\* The largest ceiling that still lies below two of the requested sizes.
WidestCeiling ==
    LET largest == CHOOSE m \in MaxResultsInputs : \A n \in MaxResultsInputs : n <= m
        second == CHOOSE m \in MaxResultsInputs \ {largest} :
                      \A n \in MaxResultsInputs \ {largest} : n <= m
    IN  second - 1

\* C15: in all-folders mode the number of emails returned is capped at a
\* fixed ceiling that does not depend on maxResults: the answers to two
\* requests that ask for more than the ceiling stay within it.  Stated for
\* the widest ceiling that two of the requested sizes exceed.
C15_AllFoldersCountCapped ==
    (FetchAnswered /\ fetchAllFolders /\ res.kind = "emails") =>
        Len(res.emails) <= WidestCeiling

\* C16: the emails returned are at most maxResults, ordered by date from the
\* newest to the oldest, and are the maxResults newest of the emails
\* collected from the folders.
C16_ReturnsNewestMaxResults ==
    (FetchAnswered /\ res.kind = "emails" /\ imapPc = "done") =>
        LET collected == CollectedUpTo(Len(folderOutcome))
        IN  /\ Len(res.emails) <= maxResults
            /\ Len(res.emails) = Min(maxResults, Len(collected))
            /\ \A i, j \in 1..Len(res.emails) :
                   /\ i < j => res.emails[i].date >= res.emails[j].date
                   /\ i # j => res.emails[i] # res.emails[j]
            /\ Elements(res.emails) \subseteq Elements(collected)
            /\ \A left \in Elements(collected) \ Elements(res.emails) :
                   \A kept \in Elements(res.emails) : left.date <= kept.date

\* C16 witness: three emails are collected, the older one first, and the two
\* newest are returned.
C16_Witness ==
    /\ FetchAnswered /\ res.kind = "emails" /\ imapPc = "done"
    /\ fetchAllFolders /\ maxResults = 2
    /\ Len(allFetchedEmails) = 3 /\ Len(res.emails) = 2
    /\ Len(queried) = 3 /\ mailbox[queried[1]] = <<1>>
    /\ res.emails[1].date = 2 /\ res.emails[2].date = 2

-----------------------------------------------------------------------------
(* SpecLimit: the limit handed to fetchAndParseEmailsFromFolder *)

MaxRequested == 100

InitLimit ==
    /\ endpoint = "fetchEmails" /\ detailsPresent = TRUE
    /\ fetchAllFolders \in BOOLEAN
    /\ folder = Inbox
    /\ maxResults \in 1..MaxRequested
    /\ boxes \in MailboxHierarchies
    /\ mailbox = <<>>
    /\ imapPc = "limit"
    /\ readyFired = TRUE /\ errorFired = FALSE
    /\ connectionEnded = FALSE /\ endCalls = 0 /\ res = NoResponse
    /\ responsesSent = 0
    /\ folderNames = <<>> /\ perFolderLimit = 0 /\ folderIndex = 0
    /\ allFetchedEmails = <<>> /\ queried = <<>> /\ folderOutcome = <<>>
    /\ CritIdle /\ SubstIdle /\ TagIdle /\ ProcIdle /\ FlatIdle /\ GroupIdle
    /\ FolderIdle /\ HistIdle /\ QueryIdle /\ CrudIdle

\* The fourth argument of fetchAndParseEmailsFromFolder: perFolderLimit in the
\* loop over all folders, maxResults for the single folder.
ComputeFolderLimit ==
    /\ imapPc = "limit"
    /\ folderNames' = IF fetchAllFolders THEN flattenFolders(boxes, <<>>) ELSE <<>>
    /\ perFolderLimit' = IF fetchAllFolders
                         THEN perFolderLimitOf(maxResults, Len(folderNames'))
                         ELSE maxResults
    /\ imapPc' = "limited"
    /\ UNCHANGED <<endpoint, detailsPresent, fetchAllFolders, folder, maxResults, boxes,
                   mailbox, readyFired, errorFired, connectionEnded, endCalls, res, responsesSent,
                   folderIndex, allFetchedEmails, queried, folderOutcome>>
    /\ UNCHANGED <<critVars, substVars, tagVars, procVars, flatVars, groupVars>>
    /\ UNCHANGED <<folderVars, histVars, queryVars, crudVars>>

NextLimit == ComputeFolderLimit

SpecLimit == InitLimit /\ [][NextLimit]_vars

\* C17: in all-folders mode the per-folder limit is
\* max(10, ceil(maxResults * 1.5 / folderCount)), folderCount being the number
\* of selectable folders enumerated and 1 when there is none: the least
\* integer that is at least 10 and at least 3 * maxResults / (2 * folderCount);
\* 50 for 3 folders and maxResults 100.  In single-folder mode the limit is
\* maxResults.
C17_PerFolderLimit ==
    imapPc = "limited" =>
        IF fetchAllFolders
        THEN LET folderCount == Max(1, Cardinality(SelectablePaths(boxes)))
             IN  /\ perFolderLimit >= 10
                 /\ 2 * folderCount * perFolderLimit >= 3 * maxResults
                 /\ \/ perFolderLimit = 10
                    \/ 2 * folderCount * (perFolderLimit - 1) < 3 * maxResults
                 /\ (folderCount = 3 /\ maxResults = 100) => perFolderLimit = 50
        ELSE perFolderLimit = maxResults

\* C17 witness: three folders and maxResults 100 give the limit 50.
C17_Witness ==
    /\ imapPc = "limited" /\ fetchAllFolders
    /\ Len(folderNames) = 3 /\ maxResults = 100 /\ perFolderLimit = 50

-----------------------------------------------------------------------------
(* The grouping step of handleProcess                                      *)
(*                                                                         *)
(* An email is [id, subject, gmThreadId, date, flags, folder, folders];    *)
(* gmThreadId and folders are <<>> where the object has no such property.  *)

SubjectCapitals == <<"A", "B", "D", "E", "F", "R", "W">>

SubjectSmalls == <<"a", "b", "d", "e", "f", "r", "w">>

\* toLowerCase on a subject.
SubjectToLowerCase(s) ==
    [i \in 1..Len(s) |->
        IF \E k \in 1..Len(SubjectCapitals) : SubjectCapitals[k] = s[i]
        THEN SubjectSmalls[CHOOSE k \in 1..Len(SubjectCapitals) : SubjectCapitals[k] = s[i]]
        ELSE s[i]]

StartsWithIgnoringCase(s, prefix) ==
    /\ Len(s) >= Len(prefix)
    /\ SubjectToLowerCase(SubSeq(s, 1, Len(prefix))) = prefix

\* A variant of the prefix pattern without the i flag.
StripReplyPrefix_CaseSensitive(s) ==
    IF Len(s) >= 3 /\ SubSeq(s, 1, 3) \in { <<"r", "e", ":">>, <<"f", "w", ":">> }
    THEN TrimStart(SubSeq(s, 4, Len(s)))
    ELSE IF Len(s) >= 4 /\ SubSeq(s, 1, 4) = <<"f", "w", "d", ":">>
    THEN TrimStart(SubSeq(s, 5, Len(s)))
    ELSE s

\* .replace(/^(re|fw|fwd):\s*/i, ''): one prefix and the white space behind it.
StripReplyPrefix(s) ==
    IF StartsWithIgnoringCase(s, <<"r", "e", ":">>)
        \/ StartsWithIgnoringCase(s, <<"f", "w", ":">>)
    THEN TrimStart(SubSeq(s, 4, Len(s)))
    ELSE IF StartsWithIgnoringCase(s, <<"f", "w", "d", ":">>)
    THEN TrimStart(SubSeq(s, 5, Len(s)))
    ELSE s

RECURSIVE CollapseWhitespace(_)
\* .replace(/\s+/g, ' ')
CollapseWhitespace(s) ==
    IF s = <<>> THEN <<>>
    ELSE IF IsSpace(Head(s)) THEN <<" ">> \o CollapseWhitespace(TrimStart(s))
    ELSE <<Head(s)>> \o CollapseWhitespace(Tail(s))

normalisedSubject(email) ==
    SubjectToLowerCase(Trim(CollapseWhitespace(StripReplyPrefix(email.subject))))

\* '(no subject)'
NoSubjectKey == <<"(", "n", "o", " ", "s", "u", "b", "j", "e", "c", "t", ")">>

groupKey(email) ==
    OrElse(IF email.gmThreadId # <<>> THEN email.gmThreadId ELSE normalisedSubject(email),
           NoSubjectKey)

RECURSIVE Unique(_)
\* Array.from(new Set(arr)): each element once, in the order of first occurrence.
Unique(arr) ==
    IF arr = <<>> THEN <<>>
    ELSE LET front == Unique(SubSeq(arr, 1, Len(arr) - 1))
             last == arr[Len(arr)]
         IN  IF \E k \in 1..Len(front) : front[k] = last THEN front
             ELSE Append(front, last)

\* A variant of the reduce that keeps the earlier of two emails of one date.
RECURSIVE Newest_TieKeepsFirst(_)
Newest_TieKeepsFirst(group) ==
    IF Len(group) = 1 THEN group[1]
    ELSE LET a == Newest_TieKeepsFirst(SubSeq(group, 1, Len(group) - 1))
             b == group[Len(group)]
         IN  IF a.date >= b.date THEN a ELSE b

RECURSIVE Newest(_)
\* group.reduce((a, b) => new Date(a.date) > new Date(b.date) ? a : b)
Newest(group) ==
    IF Len(group) = 1 THEN group[1]
    ELSE LET a == Newest(SubSeq(group, 1, Len(group) - 1))
             b == group[Len(group)]
         IN  IF a.date > b.date THEN a ELSE b

\* The value of one entry of emailGroups: the newest email with the flags and
\* the folders of the whole group.
Representative(group) ==
    [Newest(group) EXCEPT
        !.flags = Unique(Concat([k \in 1..Len(group) |-> group[k].flags])),
        !.folders = Unique([k \in 1..Len(group) |-> group[k].folder])]

\* The grouping of handleProcess: one entry per key in the order in which the
\* keys first occur, each entry mapped to its representative.
GroupEmails(list) ==
    LET keys == Unique([k \in 1..Len(list) |-> groupKey(list[k])])
    IN  [g \in 1..Len(keys) |->
            Representative(SelectSeq(list, LAMBDA email : groupKey(email) = keys[g]))]

-----------------------------------------------------------------------------
(* Bounded fetch results *)

MaxFetched == 3

FetchedDates == { 1, 2 }

FetchedSubjects ==
    { <<"a">>, <<"R", "E", ":", " ", "A">>, <<"F", "w", "d", ":", "b", " ", " ", "b">> }

FetchedFlags == { <<>>, <<"\\Seen">> }

FetchedFolders == { "INBOX", "Sent" }

\* What /api/fetchEmails returns: emails in descending order of date, none
\* with a gmThreadId or a folders property; the id is the UID, here the
\* position in the list.
FetchResults ==
    { list \in SeqsUpTo([subject : FetchedSubjects, date : FetchedDates,
                         flags : FetchedFlags, folder : FetchedFolders], MaxFetched) :
        \A k \in 1..(Len(list) - 1) : list[k].date >= list[k + 1].date }

WithIds(list) ==
    [k \in 1..Len(list) |->
        [id |-> k, subject |-> list[k].subject, gmThreadId |-> <<>>,
         date |-> list[k].date, flags |-> list[k].flags, folder |-> list[k].folder,
         folders |-> <<>>]]

-----------------------------------------------------------------------------
(* SpecGroup: handleProcess between fetchEmails and processEmails *)

InitGroup ==
    /\ fetchResult \in { WithIds(list) : list \in FetchResults }
    /\ groupBySubject \in BOOLEAN
    /\ emailsToProcess = <<>>
    /\ emailCount = 0
    /\ groupPc = "fetched"
    /\ CritIdle /\ SubstIdle /\ TagIdle /\ ProcIdle /\ ImapIdle /\ FlatIdle
    /\ FolderIdle /\ HistIdle /\ QueryIdle /\ CrudIdle

\* handleProcess from the result of fetchEmails to the call of processEmails:
\* the grouping when the checkbox is set, the count, and the return when no
\* email is left.
GroupFetched ==
    /\ groupPc = "fetched"
    /\ emailsToProcess' = IF groupBySubject THEN GroupEmails(fetchResult) ELSE fetchResult
    /\ emailCount' = Len(emailsToProcess')
    /\ groupPc' = IF emailCount' = 0 THEN "returned" ELSE "processing"
    /\ UNCHANGED <<fetchResult, groupBySubject>>
    /\ UNCHANGED <<critVars, substVars, tagVars, procVars, imapVars, flatVars>>
    /\ UNCHANGED <<folderVars, histVars, queryVars, crudVars>>

NextGroup == GroupFetched

SpecGroup == InitGroup /\ [][NextGroup]_vars

Grouped == groupBySubject /\ groupPc \in { "returned", "processing" }

\* An email with its flags and folders as sets.
AsSets(email) ==
    [id |-> email.id, subject |-> email.subject, date |-> email.date,
     folder |-> email.folder, flagSet |-> Elements(email.flags),
     folderSet |-> Elements(email.folders)]

RepresentativesOf(list) == { AsSets(list[k]) : k \in 1..Len(list) }

Permuted(list, order) == [k \in 1..Len(list) |-> list[order[k]]]

Orders(n) == { order \in [1..n -> 1..n] : \A i, j \in 1..n : i # j => order[i] # order[j] }

\* C19: grouping is idempotent: grouping the grouped emails again yields the
\* same emails with the same merged flags and the same merged folders.
C19_GroupingIdempotent ==
    Grouped => RepresentativesOf(GroupEmails(emailsToProcess))
                   = RepresentativesOf(emailsToProcess)

\* C20: grouping does not depend on the order of the emails: every
\* permutation of the fetched emails, two emails of one group with the same
\* date included, yields the same representatives with the same flag sets and
\* folder sets.
C20_GroupingOrderIndependent ==
    Grouped =>
        \A order \in Orders(Len(fetchResult)) :
            RepresentativesOf(GroupEmails(Permuted(fetchResult, order)))
                = RepresentativesOf(emailsToProcess)

-----------------------------------------------------------------------------
(* Order of the variables in substitutePromptVariables *)

PlaceholderOf(variable) == <<"{">> \o variable.key \o <<"}">>

PlaceholderAt(text, variable, pos) ==
    /\ pos + Len(PlaceholderOf(variable)) <= Len(text)
    /\ SubSeq(text, pos + 1, pos + Len(PlaceholderOf(variable))) = PlaceholderOf(variable)

RECURSIVE AllAtOnceFrom(_, _, _)
\* The template with each placeholder of a variable of the list replaced by
\* that variable's value as it stands, in one pass over the template: what a
\* value brings in is not looked at again.
AllAtOnceFrom(text, vs, pos) ==
    IF pos >= Len(text) THEN <<>>
    ELSE IF \E k \in 1..Len(vs) : PlaceholderAt(text, vs[k], pos)
    THEN LET k == CHOOSE i \in 1..Len(vs) : PlaceholderAt(text, vs[i], pos)
         IN  vs[k].value \o AllAtOnceFrom(text, vs, pos + Len(PlaceholderOf(vs[k])))
    ELSE <<text[pos + 1]>> \o AllAtOnceFrom(text, vs, pos + 1)

\* C30: the result of substitutePromptVariables does not depend on the order
\* of the variables and takes each value as it stands: every reordering of
\* the list gives the same text, and text that a value brought in (such as
\* the placeholder of another variable) is not substituted again.
C30_SubstitutionOrderIndependent ==
    substPc = "returned" =>
        /\ \A order \in Orders(Len(variables)) :
               LET other == substitutePromptVariables(promptText,
                                                      Permuted(variables, order))
               IN  ~other.thrown /\ other.text = substitutedText
        /\ substitutedText = AllAtOnceFrom(promptText, variables, 0)

-----------------------------------------------------------------------------
(* The grouping as a partition *)

\* The key the grouping is to give each of the fetched subjects: one leading
\* re:, fw: or fwd: stripped whatever its case, white space collapsed and
\* trimmed, lower case.
ExpectedKey(email) ==
    IF email.gmThreadId # <<>> THEN email.gmThreadId
    ELSE CASE email.subject = <<"a">> -> <<"a">>
           [] email.subject = <<"R", "E", ":", " ", "A">> -> <<"a">>
           [] email.subject = <<"F", "w", "d", ":", "b", " ", " ", "b">> -> <<"b", " ", "b">>

Members(list, key) == { list[k] : k \in { i \in 1..Len(list) : ExpectedKey(list[i]) = key } }

\* C21: the grouping partitions the emails by key and outputs exactly one
\* email per key: a member of the key's group with the latest date of the
\* group, its flags the union of the members' flags and its folders the union
\* of the members' folders.
C21_OneNewestEmailPerKey ==
    Grouped =>
        /\ { ExpectedKey(emailsToProcess[k]) : k \in 1..Len(emailsToProcess) }
               = { ExpectedKey(fetchResult[k]) : k \in 1..Len(fetchResult) }
        /\ \A i, j \in 1..Len(emailsToProcess) :
               i # j => ExpectedKey(emailsToProcess[i]) # ExpectedKey(emailsToProcess[j])
        /\ \A k \in 1..Len(emailsToProcess) :
               LET chosen == emailsToProcess[k]
                   members == Members(fetchResult, ExpectedKey(chosen))
               IN  /\ \E member \in members :
                          /\ member.id = chosen.id /\ member.subject = chosen.subject
                          /\ member.date = chosen.date /\ member.folder = chosen.folder
                   /\ \A member \in members : member.date <= chosen.date
                   /\ Elements(chosen.flags)
                          = UNION { Elements(member.flags) : member \in members }
                   /\ Elements(chosen.folders) = { member.folder : member \in members }

\* C21 witness: three emails of two subjects that differ by a prefix, by case
\* and by folder form one group: the newest is kept with both folders and the
\* flag of an older member.
C21_Witness ==
    /\ Grouped /\ Len(fetchResult) = 3 /\ Len(emailsToProcess) = 1
    /\ fetchResult[1].subject = <<"R", "E", ":", " ", "A">> /\ fetchResult[1].date = 2
    /\ fetchResult[1].flags = <<>>
    /\ fetchResult[2].subject = <<"a">> /\ fetchResult[2].date = 1
    /\ fetchResult[2].flags = <<"\\Seen">>
    /\ fetchResult[1].folder # fetchResult[2].folder
    /\ emailsToProcess[1].id = 1
    /\ Elements(emailsToProcess[1].flags) = {"\\Seen"}
    /\ Elements(emailsToProcess[1].folders) = {"INBOX", "Sent"}

-----------------------------------------------------------------------------
(* One response per request *)

\* C28: a request to /api/fetchEmails is answered at most once, whatever the
\* order of the connection's error event, the folder failures and the final
\* processing.
C28_AtMostOneResponse == endpoint = "fetchEmails" => responsesSent <= 1

\* C28 witness: the connection emitted 'error', which answered the request,
\* and the fetch of the single folder then ran to the final processing.
C28_Witness ==
    /\ endpoint = "fetchEmails" /\ ~fetchAllFolders /\ errorFired /\ imapPc = "done"
    /\ res.kind = "error" /\ res.status = 500 /\ allFetchedEmails # <<>>
    /\ responsesSent = 1

-----------------------------------------------------------------------------
(* SpecHistory: saveQueryToHistory and clearQueryHistory, one call at a time *)

MaxSaves == 22

InitHistory ==
    /\ queryHistory = <<>> /\ historyClock = 0
    /\ openaiApiKey = <<>> /\ emails = <<>> /\ promises = <<>> /\ settleOrder = <<>>
    /\ result = [kind |-> "none"] /\ procPc = "idle"
    /\ isProcessing = FALSE /\ latestResults = [kind |-> "none"]
    /\ CritIdle /\ SubstIdle /\ TagIdle /\ ImapIdle /\ FlatIdle /\ GroupIdle
    /\ FolderIdle /\ QueryIdle /\ CrudIdle

\* One call of saveQueryToHistory, with the result of a combined run.  (The
\* entries differ by historyId and timestamp alone: the list is cut whatever
\* the other fields hold.)
SaveQuery ==
    /\ historyClock < MaxSaves
    /\ historyClock' = historyClock + 1
    /\ queryHistory' = saveQueryToHistory(queryHistory, historyClock + 1, <<"x">>,
                                          [kind |-> "string", text |-> <<"r">>],
                                          FALSE, <<>>)
    /\ UNCHANGED <<openaiApiKey, emails, promises, settleOrder, result, procPc,
                   isProcessing, latestResults>>
    /\ UNCHANGED <<critVars, substVars, tagVars, imapVars, flatVars, groupVars>>
    /\ UNCHANGED <<folderVars, queryVars, crudVars>>

\* clearQueryHistory
ClearQueryHistory ==
    /\ queryHistory' = <<>>
    /\ UNCHANGED <<openaiApiKey, emails, promises, settleOrder, result, procPc,
                   isProcessing, latestResults>>
    /\ UNCHANGED <<critVars, substVars, tagVars, imapVars, flatVars, groupVars>>
    /\ UNCHANGED <<folderVars, histVars, queryVars, crudVars>>

NextHistory ==
    \/ SaveQuery
    \/ ClearQueryHistory

SpecHistory == InitHistory /\ [][NextHistory]_vars

NewestFirst(history) ==
    \A i, j \in 1..Len(history) : i < j => history[i].timestamp > history[j].timestamp

\* C23: after any sequence of saves and clears the history holds at most 20
\* entries, newest first; a save puts its entry in front of the entries there
\* were, of which a full history loses exactly the oldest and keeps the other
\* 19 in their order; a clear leaves the history empty.
C23_HistoryBoundedNewestFirst ==
    [][ /\ Len(queryHistory') <= 20
        /\ NewestFirst(queryHistory')
        /\ historyClock' # historyClock =>
               /\ Head(queryHistory').historyId = historyClock'
               /\ Tail(queryHistory') = IF Len(queryHistory) = 20
                                        THEN SubSeq(queryHistory, 1, 19)
                                        ELSE queryHistory
        /\ historyClock' = historyClock => queryHistory' = <<>> ]_vars

\* C23 witness: the twenty-second save went into a full history: the entries
\* of the first two saves are gone, the other twenty are there.
C23_Witness ==
    /\ historyClock = 22 /\ Len(queryHistory) = 20
    /\ queryHistory[1].historyId = 22 /\ queryHistory[20].historyId = 3

-----------------------------------------------------------------------------
(* SpecTagCrud: addTag, updateTag and deleteTag of the application context, *)
(* called directly or through handleSave of the tag manager                 *)

\* A variant of the comparison that takes case into account.
SameIgnoringCase_Exact(a, b) == a = b

\* t.name.toLowerCase() === name.toLowerCase()
SameIgnoringCase(a, b) == ToLowerCase(a) = ToLowerCase(b)

\* marker.match(/^\[\[.+\]\]$/)
MatchesMarkerFormat(marker) ==
    /\ Len(marker) >= 5
    /\ SubSeq(marker, 1, 2) = <<"[", "[">>
    /\ SubSeq(marker, Len(marker) - 1, Len(marker)) = <<"]", "]">>

\* tags.some(t => t.id !== id && t.name.toLowerCase() === name.toLowerCase()),
\* and the same for the marker; addTag compares with every tag (id 0 is the
\* id of no tag).
NameTaken(list, id, name) ==
    \E i \in 1..Len(list) : list[i].id # id /\ SameIgnoringCase(list[i].name, name)

MarkerTaken(list, id, marker) ==
    \E i \in 1..Len(list) : list[i].id # id /\ SameIgnoringCase(list[i].marker, marker)

\* addTag(tag), newId the value of uuidv4()
addTag(list, tag, newId) ==
    LET name == Trim(tag.name)
        marker == Trim(tag.marker)
    IN  IF name = <<>> THEN list
        ELSE IF ~MatchesMarkerFormat(marker) THEN list
        ELSE IF NameTaken(list, 0, name) THEN list
        ELSE IF MarkerTaken(list, 0, marker) THEN list
        ELSE Append(list, [id |-> newId, name |-> name, marker |-> marker])

\* updateTag(tag)
updateTag(list, tag) ==
    LET name == Trim(tag.name)
        marker == Trim(tag.marker)
    IN  IF name = <<>> THEN list
        ELSE IF ~MatchesMarkerFormat(marker) THEN list
        ELSE IF NameTaken(list, tag.id, name) THEN list
        ELSE IF MarkerTaken(list, tag.id, marker) THEN list
        ELSE [i \in 1..Len(list) |->
                 IF list[i].id = tag.id
                 THEN [id |-> tag.id, name |-> name, marker |-> marker]
                 ELSE list[i]]

\* deleteTag(id)
deleteTag(list, id) == SelectSeq(list, LAMBDA t : t.id # id)

\* The marker handleSave derives from the trimmed name.
GeneratedMarker(trimmedName) == <<"[", "[">> \o trimmedName \o <<"]", "]">>

\* handleSave of the tag manager: currentId is the id of the tag being edited,
\* 0 when a tag is being added.  Its own checks come before the call.
handleSave(list, tagName, currentId, newId) ==
    LET trimmedName == Trim(tagName)
        generatedMarker == GeneratedMarker(trimmedName)
        tag == [id |-> currentId, name |-> trimmedName, marker |-> generatedMarker]
    IN  IF trimmedName = <<>> THEN list
        ELSE IF NameTaken(list, currentId, trimmedName) THEN list
        ELSE IF MarkerTaken(list, currentId, generatedMarker) THEN list
        ELSE IF currentId # 0 THEN updateTag(list, tag)
        ELSE addTag(list, tag, newId)

MaxTagIds == 3

TagNameInputs == { <<>>, <<"U">>, <<" ", "u", " ">>, <<"T">>, <<"t">> }

TagMarkerInputs ==
    { <<"[", "[", "]", "]">>, GeneratedMarker(<<"U">>),
      <<" ">> \o GeneratedMarker(<<"u">>), GeneratedMarker(<<"t">>) }

TagInputs == [name : TagNameInputs, marker : TagMarkerInputs]

\* The lists the context starts from: what an earlier session stored.
StoredTagLists ==
    { <<>>,
      << [id |-> 1, name |-> <<"U">>, marker |-> GeneratedMarker(<<"U">>)],
         [id |-> 2, name |-> <<"t">>, marker |-> GeneratedMarker(<<"t">>)] >> }

InitTagCrud ==
    /\ tagList \in StoredTagLists
    /\ nextTagId = Len(tagList)
    /\ lastTagCall = [op |-> "none"]
    /\ CritIdle /\ SubstIdle /\ TagIdle /\ ProcIdle /\ ImapIdle /\ FlatIdle /\ GroupIdle
    /\ FolderIdle /\ HistIdle /\ QueryIdle

CallOf(op, id, tag) ==
    [op |-> op, id |-> id, name |-> tag.name, marker |-> tag.marker, before |-> tagList]

OthersUnchangedByCrud ==
    /\ UNCHANGED <<critVars, substVars, tagVars, procVars, imapVars, flatVars, groupVars>>
    /\ UNCHANGED <<folderVars, histVars, queryVars>>

AddTag(tag) ==
    /\ nextTagId < MaxTagIds \/ addTag(tagList, tag, nextTagId + 1) = tagList
    /\ tagList' = addTag(tagList, tag, nextTagId + 1)
    /\ nextTagId' = IF tagList' # tagList THEN nextTagId + 1 ELSE nextTagId
    /\ lastTagCall' = CallOf("add", 0, tag)
    /\ OthersUnchangedByCrud

UpdateTag(id, tag) ==
    /\ tagList' = updateTag(tagList, [id |-> id, name |-> tag.name, marker |-> tag.marker])
    /\ lastTagCall' = CallOf("update", id, tag)
    /\ UNCHANGED nextTagId
    /\ OthersUnchangedByCrud

DeleteTag(id) ==
    /\ tagList' = deleteTag(tagList, id)
    /\ lastTagCall' = [op |-> "delete", id |-> id, name |-> <<>>, marker |-> <<>>,
                       before |-> tagList]
    /\ UNCHANGED nextTagId
    /\ OthersUnchangedByCrud

\* handleSave with the modal opened for a new tag (currentId 0) or for a tag
\* of the list.
HandleSave(tagName, currentId) ==
    /\ currentId = 0 \/ \E i \in 1..Len(tagList) : tagList[i].id = currentId
    /\ \/ currentId # 0 \/ nextTagId < MaxTagIds
       \/ handleSave(tagList, tagName, currentId, nextTagId + 1) = tagList
    /\ tagList' = handleSave(tagList, tagName, currentId, nextTagId + 1)
    /\ nextTagId' = IF Len(tagList') # Len(tagList) THEN nextTagId + 1 ELSE nextTagId
    /\ lastTagCall' = CallOf(IF currentId = 0 THEN "add" ELSE "update", currentId,
                             [name |-> tagName, marker |-> GeneratedMarker(Trim(tagName))])
    /\ OthersUnchangedByCrud

NextTagCrud ==
    \/ \E tag \in TagInputs : AddTag(tag)
    \/ \E id \in 1..MaxTagIds, tag \in TagInputs : UpdateTag(id, tag)
    \/ \E id \in 1..MaxTagIds : DeleteTag(id)
    \/ \E tagName \in TagNameInputs, currentId \in 0..MaxTagIds :
           HandleSave(tagName, currentId)

SpecTagCrud == InitTagCrud /\ [][NextTagCrud]_vars

\* No two tags of the list share a name or a marker, letter case aside.
NoSharedNameOrMarker(list) ==
    \A i, j \in 1..Len(list) :
        i # j => /\ ToLowerCase(list[i].name) # ToLowerCase(list[j].name)
                 /\ ToLowerCase(list[i].marker) # ToLowerCase(list[j].marker)

\* The call gives a tag the name or the marker of another tag of the list,
\* letter case and surrounding white space aside.
WouldDuplicate(call) ==
    /\ call.op \in { "add", "update" }
    /\ \E i \in 1..Len(call.before) :
           /\ call.op = "update" => call.before[i].id # call.id
           /\ \/ ToLowerCase(Trim(call.name)) = ToLowerCase(call.before[i].name)
              \/ ToLowerCase(Trim(call.marker)) = ToLowerCase(call.before[i].marker)

\* C24: from a list without shared names and markers, every sequence of
\* addTag, updateTag and deleteTag keeps the list without shared names and
\* markers (letter case aside), and a call that would give a tag the name or
\* marker of another one, up to case and surrounding white space, leaves the
\* list as it was.
C24_TagsStayUnique ==
    /\ NoSharedNameOrMarker(tagList)
    /\ (lastTagCall.op # "none" /\ WouldDuplicate(lastTagCall))
           => tagList = lastTagCall.before

\* C24 witness: the tag "t" was deleted and the tag "T" added; addTag(" u ")
\* was then called on the list, which holds the tag "U", and left it as it was.
C24_Witness ==
    /\ lastTagCall.op = "add" /\ lastTagCall.name = <<" ", "u", " ">>
    /\ MatchesMarkerFormat(Trim(lastTagCall.marker))
    /\ Len(tagList) = 2 /\ tagList = lastTagCall.before
    /\ tagList[1].name = <<"U">>
    /\ tagList[2].id = 3 /\ tagList[2].name = <<"T">>
    /\ nextTagId = 3

-----------------------------------------------------------------------------
(* SpecFolder: the commands, the fetch stream and the parsers of            *)
(* fetchAndParseEmailsFromFolder, and the loop of the ready handler that    *)
(* awaits it folder by folder                                               *)

\* A variant of the loop that goes on without awaiting the fetch.
FetchAwaited_Never(call) == TRUE

\* await fetchAndParseEmailsFromFolder(...): the handler goes on when the
\* promise is settled.
FetchAwaited(call) == call.outcome # "pending"

\* The call up to its first await: openBoxAsync(folderName, true) is issued.
NewCall(folderName, maxResultsPerFolder) ==
    [folderName |-> folderName, maxResultsPerFolder |-> maxResultsPerFolder,
     pc |-> "opening", searched |-> FALSE, uids |-> <<>>, limitedUIDs |-> <<>>,
     messages |-> <<>>, fetchedEmailsData |-> <<>>, streamEnded |-> FALSE,
     outcome |-> "pending"]

\* return [] of the async function, from the try block or from its catch.
ReturnsEmpty(call) == [call EXCEPT !.pc = "ended", !.outcome = "resolved"]

PendingParsers(call) ==
    { i \in 1..Len(call.messages) : call.messages[i].parse = "pending" }

\* The 'end' handler of the fetch resolves the promise once the stream has
\* ended and Promise.all(fetchPromises) is fulfilled.
ResolveWhenParsed(call) ==
    IF call.streamEnded /\ PendingParsers(call) = {} /\ call.outcome = "pending"
    THEN [call EXCEPT !.outcome = "resolved"]
    ELSE call

\* The record pushed for a message, parsed or not.
RecordOf(call, message, parsed) ==
    [id |-> message.uid, date |-> mailbox[message.box][message.uid],
     folder |-> call.folderName,
     body |-> IF parsed THEN "text" ELSE "(parse error)"]

FolderLimits == { 0, 1, 2 }

MaxFolderMessages == 2

\* The messages of a mailbox, at most MaxFolderMessages in all, of one date.
FolderMailboxesOf(hierarchy) ==
    { contents \in [SelectablePaths(hierarchy) ->
                       { [i \in 1..n |-> 1] : n \in 0..MaxFolderMessages }] :
        TotalMessages(contents, SelectablePaths(hierarchy)) <= MaxFolderMessages }

InitFolder ==
    /\ endpoint = "fetchEmails" /\ detailsPresent = TRUE
    /\ boxes \in MailboxHierarchies
    /\ mailbox \in FolderMailboxesOf(boxes)
    /\ fetchAllFolders \in BOOLEAN
    /\ folder \in (IF fetchAllFolders THEN { Inbox }
                   ELSE SelectablePaths(boxes) \cup { MissingFolder })
    /\ maxResults \in (IF fetchAllFolders THEN { 3 } ELSE FolderLimits)
    /\ imapPc = (IF fetchAllFolders THEN "getBoxes" ELSE "connecting")
    /\ readyFired = fetchAllFolders /\ errorFired = FALSE
    /\ connectionEnded = FALSE /\ endCalls = 0 /\ res = NoResponse
    /\ responsesSent = 0
    /\ folderNames = <<>> /\ perFolderLimit = 0 /\ folderIndex = 0
    /\ allFetchedEmails = <<>> /\ queried = <<>> /\ folderOutcome = <<>>
    /\ selectedBox = <<>> /\ folderCalls = <<>>
    /\ CritIdle /\ SubstIdle /\ TagIdle /\ ProcIdle /\ FlatIdle /\ GroupIdle
    /\ HistIdle /\ QueryIdle /\ CrudIdle

RequestUnchangedByFolder ==
    /\ UNCHANGED <<endpoint, detailsPresent, fetchAllFolders, folder, maxResults, boxes,
                   mailbox, errorFired, folderOutcome>>
    /\ UNCHANGED <<critVars, substVars, tagVars, procVars, flatVars, groupVars>>
    /\ UNCHANGED <<histVars, queryVars, crudVars>>

LoopUnchangedByFolder ==
    /\ UNCHANGED <<imapPc, readyFired, connectionEnded, endCalls, res, responsesSent,
                   folderNames, perFolderLimit, folderIndex, allFetchedEmails, queried>>
    /\ RequestUnchangedByFolder

\* The loop from folder index first on: the next folder that is not skipped
\* is fetched, and without one the final processing runs.
LoopFrom(names, limit, first, collected) ==
    /\ folderIndex' = first
    /\ IF first > Len(names)
       THEN /\ ProcessFinalResults(collected)
            /\ UNCHANGED <<queried, folderCalls>>
       ELSE /\ imapPc' = "folder"
            /\ allFetchedEmails' = collected
            /\ queried' = Append(queried, names[first])
            /\ folderCalls' = Append(folderCalls, NewCall(names[first], limit))
            /\ UNCHANGED <<connectionEnded, endCalls, res, responsesSent>>

\* The ready handler of the single-folder mode up to the first await of
\* fetchAndParseEmailsFromFolder(imap, folder, searchCriteria, maxResults).
SingleFetchStarts ==
    /\ imapPc = "connecting" /\ ~readyFired /\ ~fetchAllFolders
    /\ readyFired' = TRUE
    /\ imapPc' = "single"
    /\ queried' = Append(queried, folder)
    /\ folderCalls' = Append(folderCalls, NewCall(folder, maxResults))
    /\ UNCHANGED <<connectionEnded, endCalls, res, responsesSent, folderNames,
                   perFolderLimit, folderIndex, allFetchedEmails, selectedBox>>
    /\ RequestUnchangedByFolder

\* getBoxes resolves: the folders are flattened, the limit is computed and
\* the loop runs to the open of its first folder.
FoldersListed ==
    /\ imapPc = "getBoxes" /\ fetchAllFolders
    /\ LET names == flattenFolders(boxes, <<>>)
           limit == perFolderLimitOf(maxResults, Len(names))
       IN  /\ folderNames' = names
           /\ perFolderLimit' = limit
           /\ LoopFrom(names, limit, NextFolderIndex(names, 1), <<>>)
    /\ UNCHANGED <<readyFired, selectedBox>>
    /\ RequestUnchangedByFolder

\* The handler goes on behind the await of the latest call: the emails of a
\* resolved call are collected; a rejection is caught, by the loop to go on
\* and by the single-folder branch to answer with handleImapError.
FetchSettled ==
    /\ imapPc \in { "folder", "single" }
    /\ LET call == folderCalls[Len(folderCalls)]
           collected == IF call.outcome = "resolved"
                        THEN allFetchedEmails \o call.fetchedEmailsData
                        ELSE allFetchedEmails
       IN  /\ FetchAwaited(call)
           /\ IF call.outcome = "rejected" /\ AfterFolderError(fetchAllFolders) # "continue"
              THEN /\ HandleImapError
                   /\ imapPc' = "done"
                   /\ UNCHANGED <<allFetchedEmails, folderIndex, queried, folderCalls>>
              ELSE IF fetchAllFolders
              THEN LoopFrom(folderNames, perFolderLimit,
                            NextFolderIndex(folderNames, folderIndex + 1), collected)
              ELSE /\ ProcessFinalResults(collected)
                   /\ UNCHANGED <<folderIndex, queried, folderCalls>>
    /\ UNCHANGED <<readyFired, folderNames, perFolderLimit, selectedBox>>
    /\ RequestUnchangedByFolder

\* openBox succeeds: the session has the folder selected; a folder without
\* messages is left at once, else the search is issued.
OpenBoxResolves(k) ==
    /\ k \in 1..Len(folderCalls) /\ folderCalls[k].pc = "opening"
    /\ folderCalls[k].folderName \in DOMAIN mailbox
    /\ selectedBox' = folderCalls[k].folderName
    /\ folderCalls' =
           [folderCalls EXCEPT ![k] =
               IF Len(mailbox[@.folderName]) = 0 THEN ReturnsEmpty(@)
               ELSE [@ EXCEPT !.pc = "searching", !.searched = TRUE]]
    /\ LoopUnchangedByFolder

\* openBox or search fails: the catch returns [].
CommandFails(k) ==
    /\ k \in 1..Len(folderCalls) /\ folderCalls[k].pc \in { "opening", "searching" }
    /\ folderCalls' = [folderCalls EXCEPT ![k] = ReturnsEmpty(@)]
    /\ selectedBox' = IF folderCalls[k].pc = "opening" THEN <<>> ELSE selectedBox
    /\ LoopUnchangedByFolder

\* search succeeds with the identifiers from first on of the selected folder:
\* the last maxResultsPerFolder of them are fetched.
SearchResolves(k, first) ==
    /\ k \in 1..Len(folderCalls) /\ folderCalls[k].pc = "searching"
    /\ selectedBox # <<>> /\ first \in 1..(Len(mailbox[selectedBox]) + 1)
    /\ LET call == folderCalls[k]
           uids == [i \in 1..(Len(mailbox[selectedBox]) + 1 - first) |-> first - 1 + i]
           limitedUIDs == SliceLast(uids, call.maxResultsPerFolder)
       IN  folderCalls' =
               [folderCalls EXCEPT ![k] =
                   IF Len(uids) = 0 THEN ReturnsEmpty([@ EXCEPT !.uids = uids])
                   ELSE IF Len(limitedUIDs) = 0
                   THEN ReturnsEmpty([@ EXCEPT !.uids = uids])
                   ELSE [@ EXCEPT !.uids = uids, !.limitedUIDs = limitedUIDs,
                                  !.pc = "fetching"]]
    /\ UNCHANGED selectedBox
    /\ LoopUnchangedByFolder

\* The fetch stream delivers the next message of the selected folder and the
\* message ends, with its attributes or without them: without them it is
\* skipped, with them its source goes to simpleParser.
MessageEnds(k, attributes) ==
    /\ k \in 1..Len(folderCalls) /\ folderCalls[k].pc = "fetching"
    /\ Len(folderCalls[k].messages) < Len(folderCalls[k].limitedUIDs)
    /\ selectedBox # <<>>
    /\ LET call == folderCalls[k]
           uid == call.limitedUIDs[Len(call.messages) + 1]
       IN  /\ uid \in 1..Len(mailbox[selectedBox])
           /\ folderCalls' =
                  [folderCalls EXCEPT ![k].messages =
                      Append(@, [uid |-> uid, box |-> selectedBox,
                                 parse |-> IF attributes THEN "pending" ELSE "skipped"])]
    /\ UNCHANGED selectedBox
    /\ LoopUnchangedByFolder

\* simpleParser settles for message i: the parsed record or the parse-error
\* record is pushed and the message's promise is resolved.
ParserSettles(k, i, parsed) ==
    /\ k \in 1..Len(folderCalls) /\ i \in PendingParsers(folderCalls[k])
    /\ folderCalls' =
           [folderCalls EXCEPT ![k] =
               ResolveWhenParsed(
                   [@ EXCEPT !.fetchedEmailsData =
                                 Append(@, RecordOf(folderCalls[k],
                                                    folderCalls[k].messages[i], parsed)),
                             !.messages[i].parse =
                                 IF parsed THEN "parsed" ELSE "failed"])]
    /\ UNCHANGED selectedBox
    /\ LoopUnchangedByFolder

\* The fetch stream ends.
FetchStreamEnds(k) ==
    /\ k \in 1..Len(folderCalls) /\ folderCalls[k].pc = "fetching"
    /\ folderCalls' =
           [folderCalls EXCEPT ![k] =
               ResolveWhenParsed([@ EXCEPT !.pc = "ended", !.streamEnded = TRUE])]
    /\ UNCHANGED selectedBox
    /\ LoopUnchangedByFolder

\* The fetch stream emits 'error': the promise is rejected.
FetchStreamError(k) ==
    /\ k \in 1..Len(folderCalls) /\ folderCalls[k].pc = "fetching"
    /\ folderCalls' =
           [folderCalls EXCEPT ![k] =
               [@ EXCEPT !.pc = "ended", !.streamEnded = TRUE, !.outcome = "rejected"]]
    /\ UNCHANGED selectedBox
    /\ LoopUnchangedByFolder

NextFolder ==
    \/ SingleFetchStarts
    \/ FoldersListed
    \/ FetchSettled
    \/ \E k \in DOMAIN folderCalls : OpenBoxResolves(k)
    \/ \E k \in DOMAIN folderCalls : CommandFails(k)
    \/ \E k \in DOMAIN folderCalls, first \in 1..(MaxFolderMessages + 1) :
           SearchResolves(k, first)
    \/ \E k \in DOMAIN folderCalls, attributes \in BOOLEAN : MessageEnds(k, attributes)
    \/ \E k \in DOMAIN folderCalls, i \in 1..MaxFolderMessages, parsed \in BOOLEAN :
           ParserSettles(k, i, parsed)
    \/ \E k \in DOMAIN folderCalls : FetchStreamEnds(k)
    \/ \E k \in DOMAIN folderCalls : FetchStreamError(k)

SpecFolder == InitFolder /\ [][NextFolder]_vars

Unsettled == { k \in DOMAIN folderCalls : folderCalls[k].outcome = "pending" }

\* C25: the folders are fetched one after another: the open of a folder is
\* issued only after the fetch of the folder before it has resolved, with all
\* its messages parsed, or failed; never are two fetches in flight, and every
\* message is recorded under the folder that was open when it was fetched.
C25_FoldersFetchedInTurn ==
    /\ Cardinality(Unsettled) <= 1
    /\ \A k \in DOMAIN folderCalls :
           LET call == folderCalls[k]
           IN  /\ k < Len(folderCalls) =>
                      /\ call.outcome # "pending"
                      /\ call.outcome = "resolved" => PendingParsers(call) = {}
               /\ \A i \in DOMAIN call.messages : call.messages[i].box = call.folderName
               /\ \A j \in DOMAIN call.fetchedEmailsData :
                      \E i \in DOMAIN call.messages :
                          /\ call.messages[i].uid = call.fetchedEmailsData[j].id
                          /\ call.messages[i].box = call.fetchedEmailsData[j].folder

\* C25 witness: in all-folders mode the fetch of a first folder resolved with
\* a record, and a message of the second folder has arrived.
C25_Witness ==
    /\ fetchAllFolders /\ Len(folderCalls) = 2
    /\ folderCalls[1].outcome = "resolved" /\ Len(folderCalls[1].fetchedEmailsData) = 1
    /\ folderCalls[2].pc = "fetching" /\ Len(folderCalls[2].messages) = 1
    /\ folderCalls[2].messages[1].box = folderCalls[2].folderName
    /\ folderCalls[1].folderName # folderCalls[2].folderName

\* C26: for every limit L >= 0 the bodies of at most L identifiers are
\* requested, the last L of the search result (all of them when fewer
\* matched), and a folder that reports no message is never searched.
C26_AtMostLastLRequested ==
    \A k \in DOMAIN folderCalls :
        LET call == folderCalls[k]
            L == call.maxResultsPerFolder
            n == Len(call.uids)
        IN  /\ Len(call.limitedUIDs) <= L
            /\ call.pc \in { "fetching", "ended" } /\ n > 0 =>
                   call.limitedUIDs = SubSeq(call.uids, n - Min(L, n) + 1, n)
            /\ (call.folderName \in DOMAIN mailbox /\ Len(mailbox[call.folderName]) = 0)
                   => ~call.searched

\* C27: the list a fetch resolves holds exactly one record for every message
\* the stream delivered, the parse-error record when its parsing failed, and
\* it is resolved only when no delivered message is still being parsed.
C27_OneRecordPerDeliveredMessage ==
    \A k \in DOMAIN folderCalls :
        LET call == folderCalls[k]
        IN  call.outcome = "resolved" =>
                /\ PendingParsers(call) = {}
                /\ Len(call.fetchedEmailsData) = Len(call.messages)
                /\ \A i \in DOMAIN call.messages :
                       /\ Cardinality({ j \in DOMAIN call.fetchedEmailsData :
                                          call.fetchedEmailsData[j].id = call.messages[i].uid }) = 1
                       /\ \A j \in DOMAIN call.fetchedEmailsData :
                              call.fetchedEmailsData[j].id = call.messages[i].uid =>
                                  (call.fetchedEmailsData[j].body = "(parse error)")
                                      = (call.messages[i].parse = "failed")

-----------------------------------------------------------------------------
(* SpecQuery: one run of handleProcess of the Dashboard, from the call of   *)
(* fetchEmails to the end of processEmails, and the unified results         *)

NoResponseFromAI ==
    <<"N", "o", " ", "r", "e", "s", "p", "o", "n", "s", "e", " ", "f", "r", "o", "m",
      " ", "A", "I", ".">>

ErrorResultPrefix == <<"E", "r", "r", "o", "r", ":", " ">>

\* A variant of the lookup by the email's position.
ProcessedFor_ByPosition(results, emailList, k) ==
    IF k <= Len(results) THEN results[k] ELSE NullResult

\* results.find(r => r.originalUid === email.id): the first result with the
\* id of the email, NullResult for undefined.
ProcessedFor(results, emailList, k) ==
    LET matches == { j \in 1..Len(results) : results[j].originalUid = emailList[k].id }
    IN  IF matches = {} THEN NullResult
        ELSE results[CHOOSE j \in matches : \A other \in matches : j <= other]

\* The unified results of the Dashboard effect and of the history view.
UnifiedOf(emailList, results) ==
    [k \in 1..Len(emailList) |->
        LET email == emailList[k]
            processed == ProcessedFor(results, emailList, k)
        IN  [id |-> email.id,
             subject |-> OrElse(email.subject, NoSubjectText),
             date |-> email.date,
             folder |-> email.folder,
             processed |-> ~processed.isNull,
             processing_error |-> IF processed.isNull THEN <<>> ELSE processed.error,
             result |-> IF processed.isNull THEN [content |-> <<>>, tags |-> <<>>]
                        ELSE [content |-> processed.content, tags |-> processed.tags]]]

MaxQueryEmails == 2

\* The emails a fetch can return: identifiers are unique within a folder, the
\* dates descend with the position.
QueryEmailsAt(k) ==
    { [id |-> uid, subject |-> subject, sender |-> <<"p">>, gmThreadId |-> <<>>,
       date |-> 10 - k, flags |-> <<>>, folder |-> folderName, folders |-> <<>>] :
          uid \in 1..MaxQueryEmails, subject \in { <<"a">>, <<"R", "E", ":", " ", "A">> },
          folderName \in FetchedFolders }

QueryFetchResults ==
    UNION { { list \in [1..n -> UNION { QueryEmailsAt(k) : k \in 1..n }] :
                /\ \A k \in 1..n : list[k] \in QueryEmailsAt(k)
                /\ \A i, j \in 1..n :
                       i # j => <<list[i].folder, list[i].id>> # <<list[j].folder, list[j].id>> } :
            n \in 0..MaxQueryEmails }

InitQuery ==
    /\ groupPc = "fetching"
    /\ fetchResult = <<>> /\ emailsToProcess = <<>> /\ emailCount = 0
    /\ groupBySubject \in BOOLEAN
    /\ processIndividually \in BOOLEAN
    /\ unifiedResults = <<>>
    /\ openaiApiKey \in { <<>>, <<"k">> }
    /\ emails = <<>>
    /\ promptText = <<"x", "{", "A", "}">>
    /\ variables \in { << [key |-> <<"A">>, value |-> <<"v">>] >>,
                       << [key |-> <<"1">>, value |-> <<"v">>] >> }
    /\ substitutedText = <<>> /\ substPc = "idle"
    /\ definedTags = <<TagU, TagT>>
    /\ individualResult = <<>> /\ cleanedContent = <<>> /\ extractedTagNames = <<>>
    /\ tagIndex = 0 /\ startIndex = -1 /\ faults = <<>> /\ tagPc = "idle"
    /\ promises = <<>> /\ settleOrder = <<>>
    /\ result = [kind |-> "none"]
    /\ procPc = "idle"
    /\ isProcessing = FALSE /\ latestResults = [kind |-> "none"] /\ queryHistory = <<>>
    /\ historyClock = 0
    /\ CritIdle /\ ImapIdle /\ FlatIdle /\ FolderIdle /\ CrudIdle

\* fetchEmails rejects (the mailbox is not connected, the request fails or the
\* server answers with an error): the catch of handleProcess shows a toast.
FetchEmailsRejects ==
    /\ groupPc = "fetching"
    /\ groupPc' = "failed"
    /\ UNCHANGED <<fetchResult, groupBySubject, emailsToProcess, emailCount>>
    /\ UNCHANGED <<critVars, substVars, tagVars, procVars, imapVars, flatVars>>
    /\ UNCHANGED <<folderVars, histVars, queryVars, crudVars>>

\* fetchEmails resolves: the grouping, the count, the return when no email is
\* left, else the call of processEmails with the emails to process.
FetchEmailsResolves(list) ==
    /\ groupPc = "fetching"
    /\ fetchResult' = list
    /\ emailsToProcess' = IF groupBySubject THEN GroupEmails(list) ELSE list
    /\ emailCount' = Len(emailsToProcess')
    /\ IF emailCount' = 0
       THEN groupPc' = "returned" /\ UNCHANGED <<emails, procPc>>
       ELSE groupPc' = "processing" /\ emails' = emailsToProcess' /\ procPc' = "call"
    /\ UNCHANGED groupBySubject
    /\ UNCHANGED <<openaiApiKey, promises, settleOrder, result, isProcessing,
                   latestResults, queryHistory>>
    /\ UNCHANGED <<critVars, substVars, tagVars, imapVars, flatVars>>
    /\ UNCHANGED <<folderVars, histVars, queryVars, crudVars>>

\* processEmails in combined mode up to the await of the one completion.
CallProcessEmailsCombined ==
    /\ procPc = "call" /\ ~processIndividually
    /\ IF openaiApiKey = <<>>
       THEN /\ procPc' = "threw"
            /\ UNCHANGED <<result, substitutedText, substPc, isProcessing>>
       ELSE IF Len(emails) = 0
       THEN /\ procPc' = "returned"
            /\ result' = [kind |-> "string"]
            /\ UNCHANGED <<substitutedText, substPc, isProcessing>>
       ELSE LET r == substitutePromptVariables(promptText, variables)
            IN  /\ substitutedText' = r.text
                /\ substPc' = IF r.thrown THEN "thrown" ELSE "returned"
                /\ IF r.thrown
                   THEN procPc' = "threw" /\ UNCHANGED isProcessing
                   ELSE procPc' = "awaitingBatch" /\ isProcessing' = TRUE
                /\ UNCHANGED result
    /\ UNCHANGED <<openaiApiKey, emails, promises, settleOrder, promptText, variables,
                   latestResults, queryHistory>>
    /\ UNCHANGED <<critVars, tagVars, imapVars, flatVars, groupVars>>
    /\ UNCHANGED <<folderVars, histVars, queryVars, crudVars>>

\* What processEmails stores at its end, in the try block and in the catch:
\* the history entry with the original prompt and the latest results.
StoreResults(results) ==
    /\ result' = results
    /\ queryHistory' = saveQueryToHistory(queryHistory, historyClock + 1, promptText,
                                          results, processIndividually, emails)
    /\ historyClock' = historyClock + 1
    /\ latestResults' = results
    /\ isProcessing' = FALSE

\* The completion of the combined run resolves.
BatchResolves(content) ==
    /\ procPc = "awaitingBatch"
    /\ StoreResults([kind |-> "string", text |-> OrElse(content, NoResponseFromAI)])
    /\ procPc' = "returned"
    /\ UNCHANGED <<openaiApiKey, emails, promises, settleOrder>>
    /\ UNCHANGED <<critVars, substVars, tagVars, imapVars, flatVars, groupVars>>
    /\ UNCHANGED <<folderVars, queryVars, crudVars>>

\* The completion of the combined run rejects: the outer catch stores the
\* error text and throws.
BatchFails(errorMessage) ==
    /\ procPc = "awaitingBatch"
    /\ StoreResults([kind |-> "string", text |-> ErrorResultPrefix \o errorMessage])
    /\ procPc' = "threw"
    /\ UNCHANGED <<openaiApiKey, emails, promises, settleOrder>>
    /\ UNCHANGED <<critVars, substVars, tagVars, imapVars, flatVars, groupVars>>
    /\ UNCHANGED <<folderVars, queryVars, crudVars>>

\* handleProcess behind the await of processEmails: it ends, through its
\* catch when processEmails threw.
HandleProcessEnds ==
    /\ groupPc = "processing" /\ procPc \in { "returned", "threw" }
    /\ groupPc' = "ended"
    /\ UNCHANGED <<fetchResult, groupBySubject, emailsToProcess, emailCount>>
    /\ UNCHANGED <<critVars, substVars, tagVars, procVars, imapVars, flatVars>>
    /\ UNCHANGED <<folderVars, histVars, queryVars, crudVars>>

QueryEnded == groupPc \in { "failed", "returned", "ended" }

\* The effect of the Dashboard on latestResults and fetchedEmails, here run on
\* the values the query left.
UnifyResults ==
    /\ QueryEnded
    /\ unifiedResults' = IF latestResults.kind = "array"
                         THEN UnifiedOf(emailsToProcess, latestResults.items)
                         ELSE <<>>
    /\ unifiedResults' # unifiedResults
    /\ UNCHANGED processIndividually
    /\ UNCHANGED <<critVars, substVars, tagVars, procVars, imapVars, flatVars, groupVars>>
    /\ UNCHANGED <<folderVars, histVars, crudVars>>

NextQuery ==
    \/ FetchEmailsRejects
    \/ \E list \in QueryFetchResults : FetchEmailsResolves(list)
    \/ processIndividually /\ CallProcessEmails
    \/ CallProcessEmailsCombined
    \/ \E i \in 1..Len(promises) : \E c \in CompletionContents : CompletionResolves(i, c)
    \/ \E i \in 1..Len(promises) : \E m \in ErrorMessages : CompletionFails(i, m)
    \/ PromiseAllResolves
    \/ \E c \in CompletionContents : BatchResolves(c)
    \/ \E m \in ErrorMessages : BatchFails(m)
    \/ HandleProcessEnds
    \/ UnifyResults

SpecQuery == InitQuery /\ [][NextQuery]_vars

\* C22: every query of the Dashboard that completes or fails leaves exactly
\* one new history entry: the results of a run that succeeded, the error text
\* of a run that failed.
C22_EveryQueryLeavesOneEntry ==
    QueryEnded =>
        /\ Len(queryHistory) = 1
        /\ (groupPc = "failed" \/ procPc = "threw") =>
               /\ queryHistory[1].results.kind = "string"
               /\ SubSeq(queryHistory[1].results.text, 1, Len(ErrorResultPrefix))
                      = ErrorResultPrefix

\* C29: in individual mode every unified result, of the Dashboard and of the
\* history view, joins an email with the result that was produced from that
\* same email, also when emails of different folders have the same id.
C29_UnifiedJoinsOwnResult ==
    (QueryEnded /\ latestResults.kind = "array" /\ unifiedResults # <<>>) =>
        LET viewed == UnifiedOf(queryHistory[1].rawEmails, queryHistory[1].results.items)
        IN  \A k \in 1..Len(emailsToProcess) :
                LET own == latestResults.items[k]
                IN  /\ own.originalUid = emailsToProcess[k].id
                    /\ unifiedResults[k].processed /\ viewed[k].processed
                    /\ unifiedResults[k].result
                           = [content |-> own.content, tags |-> own.tags]
                    /\ viewed[k].result = [content |-> own.content, tags |-> own.tags]
                    /\ unifiedResults[k].processing_error = own.error

====
